---- MODULE Spec2Model ----
(***************************************************************************)
(* A model of minecraft-launcher-core: the download job scheduler (both    *)
(* the stream-based job of version_manager/downloader and the worker-pool  *)
(* job of download_utils) and the two jobs of download_version, manifest   *)
(* inheritance resolution, rule evaluation, the download strategies        *)
(* (pre-hashed, checksummed, ETag, asset), asset task construction and     *)
(* version identifiers.                                                    *)
(***************************************************************************)
EXTENDS Integers, Sequences, FiniteSets, TLC

\* ------------------------------------------------------------------ bounds
MaxTasks == 2
MaxAttempts == 2
MaxPool == 2
MaxVersions == 2
MaxDepth == 7
MaxChain == 3
MaxAssets == 2
MaxDigits == 2
MaxOther == 3
MaxRules == 2
MaxRetries == 4
MaxLibs == 2
MaxMonitors == 2
MaxCache == 3

\* ------------------------------------------------------------------ state
VARIABLES
  impl,                   \* which DownloadJob: "stream" (downloader) or "pool" (download_utils)
  all_files,              \* the job's downloadables, 1..n
  ignore_failures,
  max_download_attempts,
  concurrent_downloads,   \* concurrent_downloads / max_pool_size
  attempts,               \* Downloadable.attempts, per file
  fail_first,             \* per file: how many of its first download attempts end in an error
  succeeded_at,           \* per file: the attempt number of its first successful download, 0 if none
  start_time,             \* per file: "None" | "Some" (the first pick-up) | "Some(later)"
  end_time,               \* per file: "None" | "Some"
  sink,                   \* last ProgressUpdate that reached the job's progress_reporter
  jpc,                    \* position of DownloadJob::start: "ready" | "running" | "done"
  job_result,             \* what start returned: "None" | "Ok" | "Err"
  failure_count,          \* the count carried by the error
  next_idx,               \* stream job: next element of iter(downloads) to be pulled
  buffer,                 \* stream job: futures held by buffer_unordered
  loop_idx,               \* stream job: per file, `attempt` of the for loop in download()
  results,                \* stream job: per file, the Result collected: "None" | "Ok" | "Err"
  remaining_files,        \* pool job: VecDeque of pending files
  failures,               \* pool job: Vec of given-up files
  wpc,                    \* pool job: per worker "idle" | "pop" | "download" | "exited"
  held,                   \* pool job: per worker, the file it popped (0 = none)
  parent_of,              \* per version id: the inherits_from of its manifest (0 = None)
  declares,               \* per version id: the optional fields its manifest specifies
  arg,                    \* the manifest the caller handed to resolve
  first,                  \* what the caller's first resolve returned, once it resolves the result again
  last_fetch,             \* the latest RemoteVersionInfo::fetch: version id and body received
  local_store,            \* versions/<id>/<id>.json on disk, per id (NoManifest = no file)
  local_cache,            \* VersionManager.local_cache: Vec of installed ids
  remote_cache,           \* ids listed in VersionManager.remote_cache
  files_on_disk,          \* whether the library files exist in the game directory
  stack,                  \* the nested calls of resolve / is_up_to_date in progress
  ret,                    \* the value returned by the call that ended last
  installs,               \* how many install_version calls have written the store
  install_failed,         \* whether an install_version_by_id call has returned an error
  root,                   \* the id of the manifest the outermost resolve was called on
  rpc,                    \* "idle" | "running" | "done" | "overflow"
  subject,                \* whose applies_to_current_environment runs: "library" | "argument" | "manifest"
  rules,                  \* Library.rules: the rule list under evaluation
  env_features,           \* MinecraftFeatureMatcher(is_demo, custom_resolution.is_some())
  current_os,             \* OperatingSystem::get_current_platform()
  action,                 \* the running `action` of applies_to_current_environment
  rule_idx,               \* index of the next rule the loop visits
  applies,                \* what applies_to_current_environment returned: "None" | "Allow" | "Disallow"
  epc,                    \* "idle" | "loop" | "done"
  strategy,               \* the Downloadable's type: "prehashed" | "checksummed" | "etag" | "asset"
  asset,                  \* AssetDownloadable.asset: hash, size, compressed_hash ("none" = None)
  compressed_target,      \* content of the file at compressed_target ("absent" = no file)
  target_file,            \* content of the file at target_file ("absent" = no file)
  parent_dir,             \* target_file's parent: "exists" | "creatable" | "blocked"
  dl_attempts,            \* Downloadable.attempts
  expected_hash,          \* ChecksummedDownloadable::download's expected_hash ("unset" = None)
  requests,               \* GET requests sent to url
  sha1_requests,          \* GET requests sent to url + ".sha1"
  responses,              \* what the server answered during the running call of download
  before,                 \* target_file, requests and attempts when download was called
  dl_result,              \* what download returned: "None" | "Ok" | an error
  dl_pc,                  \* "idle" | "sha1_request" | "request" | "returned"
  objects,                \* AssetIndex.objects: asset name -> AssetObject (NoObject = no entry)
  unique_objects,         \* what get_unique_objects returned: pairs <<AssetObject, name>>
  downloadables,          \* the asset tasks pushed so far: Vec of <<name, AssetObject>>
  apc,                    \* "idle" | "loop" | "done"
  id_value,               \* the identifier string handed to MCVersion::from, as a sequence of characters
  version,                \* the MCVersion parsed from it
  formatted,              \* version.to_string()
  vpc,                    \* "idle" | "parsed" | "formatted"
  dv_pc,                  \* download_version: "built" | "version_job" | "resources_job" | "returned"
  dv_result,              \* what download_version returned: "None" | "Ok" | "Err"
  assets_job,             \* the "Resources" job as built: its files and how they fail
  version_job,            \* the "Version & Libraries" job when download_version left it
  resources_started,      \* whether assets_job.start() has been called
  retries,                \* download(job_name, client, retries, downloadable): the attempts allowed
  folder,                 \* the parent of the task's target: "exists" | "creatable" | "blocked"
  attempt,                \* the loop variable of `for attempt in 0..retries`
  last_error,             \* "None" or the error of the latest failed attempt
  download_result,        \* what downloadable.download returned, attempt by attempt
  task_result,            \* what download returned: "None" | "Ok" | an error
  tpc,                    \* "ready" | "loop" | "returned"
  libraries,              \* local_version.libraries of the resolved manifest
  lib_os,                 \* the platform the tasks are made for
  relevant,               \* get_relevant_libraries(env_features)
  lib_idx,                \* how many relevant libraries flat_map has consumed
  job_files,              \* the destination paths of the job's tasks, in order
  lpc,                    \* "idle" | "libraries" | "jar" | "built"
  monitors,               \* the job's tasks that own a DownloadableMonitor, 1..n
  current,                \* monitor.current of each task
  total,                  \* monitor.total of each task
  mon_attempts,           \* attempts begun on each task
  mon_pc,                 \* each task: "between" | "body" | "done" | "failed"
  scaled_current,         \* the progress of the latest SetAll handed to the sink
  progress_set,           \* whether the sink has been handed a SetAll yet
  date_text,              \* the JSON string handed to Date::deserialize, as a sequence of characters
  normalized,             \* the string handed to parse_from_rfc3339
  parsed,                 \* what deserialize returned: a Date or an error
  serialized,             \* Date::serialize of the parsed date
  dpc,                    \* "idle" | "normalized" | "parsed" | "serialized"
  cache,                  \* VersionManager.local_cache: the Vec behind the mutex
  mutex,                  \* who holds local_cache's lock: "free" | "install"
  versions_dir,           \* the ids whose manifest is in <gameDir>/versions
  install_id,             \* the version install_version is installing, 0 if none
  install_pc,             \* "idle" | "written" | "locked"
  refresh_pc,             \* refresh_local_versions: "idle" | "cleared"
  lookup_id,              \* the version of the latest get_installed_version, 0 if none
  lookup_result,          \* its answer: "None" | "Ok" | "ManifestNotFound" | "VersionNotFound"
  lookup_registered,      \* whether that version was in the directory and in the cache
  lookup_contended        \* whether the lock was held when it was called

jobVars == <<impl, all_files, ignore_failures, max_download_attempts, concurrent_downloads,
             attempts, fail_first, succeeded_at, start_time, end_time, sink, jpc, job_result,
             failure_count, next_idx, buffer, loop_idx, results, remaining_files,
             failures, wpc, held>>

resVars == <<parent_of, declares, arg, first, last_fetch, local_store, local_cache, remote_cache, files_on_disk, stack,
             ret, installs, install_failed, root, rpc>>

ruleVars == <<subject, rules, env_features, current_os, action, rule_idx, applies, epc>>

dlVars == <<strategy, asset, compressed_target, target_file, parent_dir, dl_attempts, expected_hash, requests,
            sha1_requests, responses, before, dl_result, dl_pc>>

assetVars == <<objects, unique_objects, downloadables, apc>>

idVars == <<id_value, version, formatted, vpc>>

seqVars == <<dv_pc, dv_result, assets_job, version_job, resources_started>>

taskVars == <<retries, folder, attempt, last_error, download_result, task_result, tpc>>

libVars == <<libraries, lib_os, relevant, lib_idx, job_files, lpc>>

monVars == <<monitors, current, total, mon_attempts, mon_pc, scaled_current, progress_set>>

dateVars == <<date_text, normalized, parsed, serialized, dpc>>

vmVars == <<cache, mutex, versions_dir, install_id, install_pc, refresh_pc, lookup_id,
           lookup_result, lookup_registered, lookup_contended>>

vars == <<jobVars, resVars, ruleVars, dlVars, assetVars, idVars, seqVars, taskVars, libVars, monVars, dateVars, vmVars>>

nonJobVars == <<resVars, ruleVars, dlVars, assetVars, idVars, seqVars, taskVars, libVars, monVars, dateVars, vmVars>>
nonResVars == <<jobVars, ruleVars, dlVars, assetVars, idVars, seqVars, taskVars, libVars, monVars, dateVars, vmVars>>
nonRuleVars == <<jobVars, resVars, dlVars, assetVars, idVars, seqVars, taskVars, libVars, monVars, dateVars, vmVars>>
nonDlVars == <<jobVars, resVars, ruleVars, assetVars, idVars, seqVars, taskVars, libVars, monVars, dateVars, vmVars>>
nonAssetVars == <<jobVars, resVars, ruleVars, dlVars, idVars, seqVars, taskVars, libVars, monVars, dateVars, vmVars>>
nonIdVars == <<jobVars, resVars, ruleVars, dlVars, assetVars, seqVars, taskVars, libVars, monVars, dateVars, vmVars>>
nonSeqVars == <<resVars, ruleVars, dlVars, assetVars, idVars, taskVars, libVars, monVars, dateVars, vmVars>>
nonVmVars == <<jobVars, resVars, ruleVars, dlVars, assetVars, idVars, seqVars, taskVars, libVars, monVars, dateVars>>
nonDateVars == <<jobVars, resVars, ruleVars, dlVars, assetVars, idVars, seqVars, taskVars, libVars, monVars, vmVars>>
nonMonVars == <<jobVars, resVars, ruleVars, dlVars, assetVars, idVars, seqVars, taskVars, libVars, dateVars, vmVars>>
nonLibVars == <<jobVars, resVars, ruleVars, dlVars, assetVars, idVars, seqVars, taskVars, monVars, dateVars, vmVars>>
nonTaskVars == <<jobVars, resVars, ruleVars, dlVars, assetVars, idVars, seqVars, libVars, monVars, dateVars, vmVars>>

\* --------------------------------------------------------- download job
Workers == 1..concurrent_downloads

RECURSIVE SeqOfRange(_, _)
SeqOfRange(a, b) == IF a > b THEN <<>> ELSE <<a>> \o SeqOfRange(a + 1, b)

\* DownloadJob after construction and add_downloadables, before start.
InitJob ==
  /\ impl \in {"stream", "pool"}
  /\ \E n \in 1..MaxTasks : all_files = 1..n
  /\ ignore_failures \in BOOLEAN
  /\ max_download_attempts \in 0..MaxAttempts
  /\ concurrent_downloads \in 1..MaxPool
  /\ attempts = [f \in all_files |-> 0]
  /\ fail_first \in [all_files -> 0..(max_download_attempts + 1)]
  /\ succeeded_at = [f \in all_files |-> 0]
  /\ start_time = [f \in all_files |-> "None"]
  /\ end_time = [f \in all_files |-> "None"]
  /\ sink = "None"
  /\ jpc = "ready"
  /\ job_result = "None"
  /\ failure_count = 0
  /\ next_idx = 1
  /\ buffer = {}
  /\ loop_idx = [f \in all_files |-> 0]
  /\ results = [f \in all_files |-> "None"]
  /\ remaining_files = IF impl = "pool" THEN SeqOfRange(1, Cardinality(all_files)) ELSE <<>>
  /\ failures = <<>>
  /\ wpc = [w \in Workers |-> "idle"]
  /\ held = [w \in Workers |-> 0]

\* No job: the state of the job variables while another component is examined.
IdleJob ==
  /\ impl = "none"
  /\ all_files = {}
  /\ ignore_failures = FALSE
  /\ max_download_attempts = 0
  /\ concurrent_downloads = 0
  /\ attempts = <<>>
  /\ fail_first = <<>>
  /\ succeeded_at = <<>>
  /\ start_time = <<>>
  /\ end_time = <<>>
  /\ sink = "None"
  /\ jpc = "off"
  /\ job_result = "None"
  /\ failure_count = 0
  /\ next_idx = 1
  /\ buffer = {}
  /\ loop_idx = <<>>
  /\ results = <<>>
  /\ remaining_files = <<>>
  /\ failures = <<>>
  /\ wpc = <<>>
  /\ held = <<>>

\* start, up to the first await: the sink is cleared and the work is set up.
Start ==
  /\ jpc = "ready"
  /\ jpc' = "running"
  /\ sink' = "Clear"
  /\ wpc' = IF impl = "pool" THEN [w \in Workers |-> "pop"] ELSE wpc
  /\ UNCHANGED nonJobVars
  /\ UNCHANGED <<impl, all_files, fail_first, ignore_failures, max_download_attempts,
                 concurrent_downloads, attempts, succeeded_at, start_time, end_time,
                 job_result, failure_count, next_idx, buffer, loop_idx, results,
                 remaining_files, failures, held>>

\* Downloadable::download: the outcome of the attempt that is now running on f
\* (attempts[f] already counts it).
AttemptOk(f) == attempts[f] > fail_first[f]

\* Utc::now() when f is picked up: the time of its first pick-up, or a later one.
Now(f) == IF attempts[f] = 0 THEN "Some" ELSE "Some(later)"

\* A start time that every pick-up writes.
MutStartTimeOverwritten(old, now) == now

\* `if downloadable.get_start_time().is_none() { downloadable.set_start_time(now) }`
SetStartTimeIfNone(old, now) == IF old = "None" THEN now ELSE old

\* ---- stream job (version_manager/downloader/download_job.rs)

\* update_progress: a displayed file exists iff some file has no end time.
UpdateProgressStream ==
  IF \E f \in all_files : end_time[f] = "None" THEN "SetAll" ELSE "Clear"

\* A buffer that never refuses another future.
MutStreamAlwaysRoom == TRUE

\* A buffer that keeps one slot unused.
MutStreamRoomBelowOne == Cardinality(buffer) < concurrent_downloads - 1

\* buffer_unordered(concurrent_downloads) pulls while it holds fewer futures.
StreamHasRoom == Cardinality(buffer) < concurrent_downloads

\* A loop that gives up after its first iteration.
MutLoopNever(idx) == FALSE

\* `for attempt in 0..retries`: is there another iteration after `idx`?
LoopContinues(idx) == idx + 1 < max_download_attempts

\* The value download() returns once the loop is over.
GaveUpResult(had_error) == IF had_error THEN "Err" ELSE "Ok"

\* What start returns, from the number of Err results.
StartOutcome(nfail) == IF ignore_failures \/ nfail = 0 THEN "Ok" ELSE "Err"

\* The stream yields the next downloadable; its future runs to its first await.
PullA ==
  /\ impl = "stream"
  /\ jpc = "running"
  /\ next_idx \in all_files
  /\ StreamHasRoom
  /\ next_idx' = next_idx + 1
  /\ start_time' = [start_time EXCEPT ![next_idx] = SetStartTimeIfNone(@, Now(next_idx))]
  /\ IF max_download_attempts = 0
       THEN /\ results' = [results EXCEPT ![next_idx] = GaveUpResult(FALSE)]
            /\ UNCHANGED <<attempts, buffer>>
       ELSE /\ attempts' = [attempts EXCEPT ![next_idx] = @ + 1]
            /\ buffer' = buffer \cup {next_idx}
            /\ UNCHANGED results
  /\ UNCHANGED nonJobVars
  /\ UNCHANGED <<impl, all_files, fail_first, ignore_failures, max_download_attempts,
                 concurrent_downloads, succeeded_at, end_time, sink, jpc, job_result,
                 failure_count, loop_idx, remaining_files, failures, wpc, held>>

\* downloadable.download(&client) returns; the future runs to its next await or its end.
EndAttemptA(f) ==
  /\ impl = "stream"
  /\ jpc = "running"
  /\ f \in buffer
  /\ sink' = UpdateProgressStream
  /\ IF AttemptOk(f)
       THEN /\ end_time' = [end_time EXCEPT ![f] = "Some"]
            /\ succeeded_at' = [succeeded_at EXCEPT ![f] = IF @ = 0 THEN attempts[f] ELSE @]
            /\ results' = [results EXCEPT ![f] = "Ok"]
            /\ buffer' = buffer \ {f}
            /\ UNCHANGED <<attempts, loop_idx>>
       ELSE IF LoopContinues(loop_idx[f])
         THEN /\ loop_idx' = [loop_idx EXCEPT ![f] = @ + 1]
              /\ attempts' = [attempts EXCEPT ![f] = @ + 1]
              /\ UNCHANGED <<end_time, succeeded_at, results, buffer>>
         ELSE /\ results' = [results EXCEPT ![f] = GaveUpResult(TRUE)]
              /\ buffer' = buffer \ {f}
              /\ UNCHANGED <<end_time, succeeded_at, attempts, loop_idx>>
  /\ UNCHANGED nonJobVars
  /\ UNCHANGED <<impl, all_files, fail_first, ignore_failures, max_download_attempts,
                 concurrent_downloads, start_time, jpc, job_result, failure_count,
                 next_idx, remaining_files, failures, wpc, held>>

\* run() has collected every result; start counts the failures, clears and returns.
FinishA ==
  /\ impl = "stream"
  /\ jpc = "running"
  /\ next_idx \notin all_files
  /\ buffer = {}
  /\ LET nfail == Cardinality({f \in all_files : results[f] = "Err"})
     IN /\ job_result' = StartOutcome(nfail)
        /\ failure_count' = IF StartOutcome(nfail) = "Err" THEN nfail ELSE 0
  /\ sink' = "Clear"
  /\ jpc' = "done"
  /\ UNCHANGED nonJobVars
  /\ UNCHANGED <<impl, all_files, fail_first, ignore_failures, max_download_attempts,
                 concurrent_downloads, attempts, succeeded_at, start_time, end_time,
                 next_idx, buffer, loop_idx, results, remaining_files, failures, wpc, held>>

\* ---- pool job (download_utils/download_job.rs)

\* update_progress: clear only when the job holds no files.
UpdateProgressPool == IF all_files = {} THEN "Clear" ELSE "SetAll"

\* A pop that reads the front without removing it.
MutPopFrontPeek(q) == q

\* remaining_files after pop_front.
PopFront(q) == Tail(q)

\* `downloadable.get_attempts() > max_download_attempts`
GaveUp(f) == attempts[f] > max_download_attempts

\* The failures Vec after a give-up on f.
RecordFailure(f) == IF ~ignore_failures THEN Append(failures, f) ELSE failures

\* A worker that puts the file back whatever the attempt's outcome.
MutAfterAttemptAlways(q, f, ok) == Append(q, f)

\* remaining_files after an attempt on f that ended ok / not ok.
AfterAttempt(q, f, ok) == IF ~ok THEN Append(q, f) ELSE q

\* One iteration of the worker's `while let Some(..) = pop_downloadable(..)`, up to
\* the await of download (or the end of the loop when the queue is empty).
PopB(w) ==
  /\ impl = "pool"
  /\ jpc = "running"
  /\ wpc[w] = "pop"
  /\ IF remaining_files = <<>>
       THEN /\ wpc' = [wpc EXCEPT ![w] = "exited"]
            /\ UNCHANGED <<remaining_files, start_time, failures, attempts, held>>
       ELSE LET f == Head(remaining_files)
            IN /\ remaining_files' = PopFront(remaining_files)
               /\ start_time' = [start_time EXCEPT ![f] = SetStartTimeIfNone(@, Now(f))]
               /\ IF GaveUp(f)
                    THEN /\ failures' = RecordFailure(f)
                         /\ UNCHANGED <<attempts, held, wpc>>
                    ELSE /\ attempts' = [attempts EXCEPT ![f] = @ + 1]
                         /\ held' = [held EXCEPT ![w] = f]
                         /\ wpc' = [wpc EXCEPT ![w] = "download"]
                         /\ UNCHANGED failures
  /\ UNCHANGED nonJobVars
  /\ UNCHANGED <<impl, all_files, fail_first, ignore_failures, max_download_attempts,
                 concurrent_downloads, succeeded_at, end_time, sink, jpc, job_result,
                 failure_count, next_idx, buffer, loop_idx, results>>

\* download returns in worker w: end time on success, monitor update, push_back on error.
EndAttemptB(w) ==
  /\ impl = "pool"
  /\ jpc = "running"
  /\ wpc[w] = "download"
  /\ LET f == held[w]
     IN /\ IF AttemptOk(f)
             THEN /\ end_time' = [end_time EXCEPT ![f] = "Some"]
                  /\ succeeded_at' = [succeeded_at EXCEPT ![f] = IF @ = 0 THEN attempts[f] ELSE @]
             ELSE UNCHANGED <<end_time, succeeded_at>>
        /\ remaining_files' = AfterAttempt(remaining_files, f, AttemptOk(f))
  /\ sink' = UpdateProgressPool
  /\ held' = [held EXCEPT ![w] = 0]
  /\ wpc' = [wpc EXCEPT ![w] = "pop"]
  /\ UNCHANGED nonJobVars
  /\ UNCHANGED <<impl, all_files, fail_first, ignore_failures, max_download_attempts,
                 concurrent_downloads, attempts, start_time, jpc, job_result,
                 failure_count, next_idx, buffer, loop_idx, results, failures>>

\* join_all has returned: the error is raised before the final clear.
FinishB ==
  /\ impl = "pool"
  /\ jpc = "running"
  /\ \A w \in Workers : wpc[w] = "exited"
  /\ IF failures # <<>>
       THEN /\ job_result' = "Err"
            /\ failure_count' = Len(failures)
            /\ UNCHANGED sink
       ELSE /\ job_result' = "Ok"
            /\ failure_count' = 0
            /\ sink' = "Clear"
  /\ jpc' = "done"
  /\ UNCHANGED nonJobVars
  /\ UNCHANGED <<impl, all_files, fail_first, ignore_failures, max_download_attempts,
                 concurrent_downloads, attempts, succeeded_at, start_time, end_time,
                 next_idx, buffer, loop_idx, results, remaining_files, failures, wpc, held>>

\* ------------------------------------------------- download job: claims

\* Files whose download attempt is in flight.
InFlight ==
  IF impl = "stream" THEN buffer
  ELSE {held[w] : w \in {x \in Workers : wpc[x] = "download"}}

\* How many times f is pending (stream: not yet pulled; pool: entries of the queue).
PendingCount(f) ==
  IF impl = "stream" THEN (IF f >= next_idx THEN 1 ELSE 0)
  ELSE Cardinality({i \in DOMAIN remaining_files : remaining_files[i] = f})

\* How many workers (stream: buffer slots) hold f for an attempt.
HolderCount(f) ==
  IF impl = "stream" THEN (IF f \in buffer THEN 1 ELSE 0)
  ELSE Cardinality({w \in Workers : wpc[w] = "download" /\ held[w] = f})

\* 1 if the job has recorded f as finished (succeeded or given up), else 0.
TerminalCount(f) ==
  IF impl = "stream" THEN (IF results[f] # "None" THEN 1 ELSE 0)
  ELSE IF succeeded_at[f] # 0 \/ (\E i \in DOMAIN failures : failures[i] = f) THEN 1 ELSE 0

\* Files that ended the job without a successful download.
PermanentFailures == {f \in all_files : succeeded_at[f] = 0}

C36_WitnessFailed ==
  /\ jpc = "done"
  /\ max_download_attempts >= 1
  /\ \E f \in all_files :
       /\ f \in PermanentFailures
       /\ start_time[f] = "Some"
       /\ end_time[f] = "None"

\* The job has recorded f as failed (the pool job keeps no record with ignore_failures).
ReportedFailed(f) ==
  IF impl = "stream" THEN results[f] = "Err"
  ELSE ignore_failures \/ \E i \in DOMAIN failures : failures[i] = f

\* C38: whatever max_download_attempts is, zero included, a task none of whose
\* attempts returned success ends among the job's failures, never as a success.
C38_SuccessNeedsAttempt ==
  jpc = "done" => \A f \in all_files : succeeded_at[f] = 0 => ReportedFailed(f)

\* C38 where it holds: a positive attempt budget, or the pool job.
C38_SuccessNeedsAttemptUnlessStreamZero ==
  (max_download_attempts >= 1 \/ impl = "pool") => C38_SuccessNeedsAttempt

\* The stream job with no attempt allowed: every task returns Ok unattempted.
C38_StreamZeroAllOk ==
  (jpc = "done" /\ impl = "stream" /\ max_download_attempts = 0) =>
    /\ job_result = "Ok"
    /\ \A f \in all_files : attempts[f] = 0 /\ results[f] = "Ok"

\* C1: start returns Ok iff ignore_failures is set or no file ended as a permanent
\* failure; otherwise the error's count is the number of files that exhausted their
\* attempts without a successful download; with ignore_failures it never fails.
C1_StartOutcome ==
  jpc = "done" =>
    /\ (job_result = "Ok") <=> (ignore_failures \/ PermanentFailures = {})
    /\ job_result = "Err" => failure_count = Cardinality(PermanentFailures)
    /\ ignore_failures => job_result = "Ok"

\* C1, restricted to a positive attempt budget (where both jobs satisfy it).
C1_StartOutcomePositiveBudget == max_download_attempts >= 1 => C1_StartOutcome

\* C2: no file's download is invoked more often than max_download_attempts.
C2_AttemptsWithinBudget ==
  \A f \in all_files : attempts[f] <= max_download_attempts

\* C2 on the stream job alone (it keeps the budget).
C2_StreamWithinBudget == impl = "stream" => C2_AttemptsWithinBudget

\* C3: a file whose first j < max_download_attempts attempts fail and whose attempt
\* j+1 succeeds ends with exactly j+1 attempts, is never attempted after its success,
\* and a job of such files returns Ok.
C3_RetryThenSuccess ==
  /\ \A f \in all_files :
       /\ succeeded_at[f] # 0 => attempts[f] = succeeded_at[f]
       /\ (jpc = "done" /\ fail_first[f] < max_download_attempts) =>
            (attempts[f] = fail_first[f] + 1 /\ succeeded_at[f] = fail_first[f] + 1)
  /\ (jpc = "done" /\ \A f \in all_files : fail_first[f] < max_download_attempts) =>
       job_result = "Ok"

C3_Witness ==
  /\ jpc = "done"
  /\ job_result = "Ok"
  /\ \E f \in all_files :
       /\ fail_first[f] = MaxAttempts - 1
       /\ max_download_attempts = MaxAttempts
       /\ attempts[f] = MaxAttempts

\* C4: at most concurrent_downloads files are in flight at any moment.
C4_BoundedInFlight == Cardinality(InFlight) <= concurrent_downloads

C4_Witness ==
  /\ Cardinality(all_files) > concurrent_downloads
  /\ Cardinality(InFlight) = concurrent_downloads
  /\ \E f \in all_files : PendingCount(f) = 1

\* C5: a file is pending, or held by exactly one worker, or terminal, never two of
\* these at once, also when it was put back for a retry.
C5_SingleOwner ==
  \A f \in all_files :
    /\ PendingCount(f) + HolderCount(f) + TerminalCount(f) <= 1
    /\ (impl = "stream" \/ ~ignore_failures) =>
         PendingCount(f) + HolderCount(f) + TerminalCount(f) = 1

C5_Witness ==
  /\ impl = "pool"
  /\ \E f \in all_files, w \in Workers :
       /\ PendingCount(f) = 1
       /\ attempts[f] >= 1
       /\ wpc[w] = "download"
       /\ held[w] # f

C7_FinalClear == jpc = "done" => sink = "Clear"

\* C7 on the stream job alone, and on a pool job that returns Ok.
C7_ClearUnlessPoolError ==
  (jpc = "done" /\ (impl = "stream" \/ job_result = "Ok")) => sink = "Clear"

\* ------------------------------------------------------ manifest resolver
Versions == 1..MaxVersions

\* The optional parts of a manifest file.
Fields ==
  {"minecraft_arguments", "main_class", "assets", "jar", "asset_index", "java_version",
   "libraries", "shared_library", "jvm", "game", "compatibility_rules", "downloads",
   "logging", "compliance_level", "minimum_launcher_version"}

\* Which optional parts a published manifest may specify.
Profiles ==
  {{},
   {"main_class", "jar", "java_version", "libraries", "jvm", "downloads", "compliance_level"},
   {"minecraft_arguments", "assets", "asset_index", "libraries", "shared_library", "game",
    "compatibility_rules", "logging", "minimum_launcher_version"}}

Phases == {"jvm", "game"}

\* The manifest of version v with parent p (0 = none) that specifies the parts d, with
\* last-updated time t. A
\* value is named after the version whose file holds it; 0 and <<>> stand for absent.
ManifestOf(v, p, d, t) ==
  [id |-> v,
   inherits_from |-> p,
   updated_time |-> t,
   release_time |-> v,
   release_type |-> v,
   minecraft_arguments |-> IF "minecraft_arguments" \in d THEN v ELSE 0,
   main_class |-> IF "main_class" \in d THEN v ELSE 0,
   assets |-> IF "assets" \in d THEN v ELSE 0,
   jar |-> IF "jar" \in d THEN v ELSE 0,
   asset_index |-> IF "asset_index" \in d THEN v ELSE 0,
   java_version |-> IF "java_version" \in d THEN v ELSE 0,
   libraries |-> IF "libraries" \notin d THEN <<>>
                 ELSE IF "shared_library" \in d THEN <<<<"shared", 0>>, <<"lib", v>>>>
                 ELSE <<<<"lib", v>>>>,
   arguments |-> [ph \in Phases |-> IF ph \in d THEN <<<<ph, v>>>> ELSE <<>>],
   compatibility_rules |-> IF "compatibility_rules" \in d THEN <<<<"rule", v>>>> ELSE <<>>,
   downloads |-> IF "downloads" \in d THEN v ELSE 0,
   logging |-> IF "logging" \in d THEN v ELSE 0,
   compliance_level |-> IF "compliance_level" \in d THEN v ELSE 0,
   minimum_launcher_version |-> IF "minimum_launcher_version" \in d THEN v ELSE 0]

NoManifest == ManifestOf(0, 0, {}, 0)

\* The manifest of version v as published with last-updated time t; the manifest
\* published at time 0 is an older one that specifies no optional part.
Manifest(v, t) == ManifestOf(v, parent_of[v], IF t = 0 THEN {} ELSE declares[v], t)

\* RemoteVersionInfo::fetch of a listed version: the current manifest body.
RemoteManifest(v) == Manifest(v, 1)

\* What a download of a manifest can give: no answer, bytes that are not the published
\* manifest, or the published manifest.
Bodies == {"none", "corrupt", "good"}

NoFetch == [id |-> 0, body |-> "none"]

\* Sha1Sum::from_reader of the bytes received for version v.
Sha1Of(v, body) == <<"sha1", v, body>>

\* RemoteVersionInfo.sha1, the checksum the remote index gives for version v.
IndexSha1(v) == <<"sha1", v, "good">>

\* A fetch that parses whatever bytes arrived.
MutFetchUnverified(v, body) ==
  IF body = "none" THEN "FetchFailed" ELSE "Ok"

\* RemoteVersionInfo::fetch: "Ok", or the error it returns.
Fetch(v, body) ==
  IF body = "none" THEN "FetchFailed"
  ELSE IF Sha1Of(v, body) # IndexSha1(v) THEN "Sha1Mismatch"
  ELSE "Ok"

NoReturn == [kind |-> "none", manifest |-> NoManifest, err |-> "", b |-> FALSE]
ReturnOk(m) == [kind |-> "ok", manifest |-> m, err |-> "", b |-> FALSE]
ReturnErr(e) == [kind |-> "err", manifest |-> NoManifest, err |-> e, b |-> FALSE]
ReturnBool(b) == [kind |-> "bool", manifest |-> NoManifest, err |-> "", b |-> b]

\* A call of fn on manifest m with inheritance trace t, about to run.
Frame(fn, m, t) ==
  [fn |-> fn, self |-> m, trace0 |-> t, trace |-> t, pc |-> "enter",
   local |-> NoManifest, installs |-> installs]

InCache(v) == \E i \in DOMAIN local_cache : local_cache[i] = v

\* VersionManager::load_manifest: NoManifest stands for ManifestNotFound.
LoadManifest(v) == local_store[v]

\* VersionManager::get_installed_version: NoManifest stands for the error.
GetInstalledVersion(v) == IF InCache(v) THEN LoadManifest(v) ELSE NoManifest

\* VersionManager::get_remote_version
GetRemoteVersion(v) == v \in remote_cache

\* VersionManager::has_all_files: every library file of m is on disk (none is required
\* when m has no library).
HasAllFiles(m) == m.libraries # <<>> => files_on_disk

\* inheritance_trace after `insert(&self.id)`.
TraceInsert(t, v) == t \cup {v}

\* A merge that copies inherits_from along with the child's identity.
MutMergeKeepsParent(child, base) ==
  [base EXCEPT
     !.inherits_from = child.inherits_from,
     !.id = child.id,
     !.updated_time = child.updated_time,
     !.release_time = child.release_time,
     !.release_type = child.release_type,
     !.minecraft_arguments = IF child.minecraft_arguments # 0 THEN child.minecraft_arguments ELSE @,
     !.main_class = IF child.main_class # 0 THEN child.main_class ELSE @,
     !.assets = IF child.assets # 0 THEN child.assets ELSE @,
     !.jar = IF child.jar # 0 THEN child.jar ELSE @,
     !.asset_index = IF child.asset_index # 0 THEN child.asset_index ELSE @,
     !.libraries = IF child.libraries # <<>> THEN child.libraries \o @ ELSE @,
     !.arguments = [ph \in Phases |-> @[ph] \o child.arguments[ph]],
     !.compatibility_rules = @ \o child.compatibility_rules,
     !.java_version = IF child.java_version # 0 THEN child.java_version ELSE @]

\* A merge that appends the child's libraries to the parent's.
MutMergeParentFirst(child, base) ==
  [base EXCEPT
     !.inherits_from = 0,
     !.id = child.id,
     !.updated_time = child.updated_time,
     !.release_time = child.release_time,
     !.release_type = child.release_type,
     !.minecraft_arguments = IF child.minecraft_arguments # 0 THEN child.minecraft_arguments ELSE @,
     !.main_class = IF child.main_class # 0 THEN child.main_class ELSE @,
     !.assets = IF child.assets # 0 THEN child.assets ELSE @,
     !.jar = IF child.jar # 0 THEN child.jar ELSE @,
     !.asset_index = IF child.asset_index # 0 THEN child.asset_index ELSE @,
     !.libraries = @ \o child.libraries,
     !.arguments = [ph \in Phases |-> @[ph] \o child.arguments[ph]],
     !.compatibility_rules = @ \o child.compatibility_rules,
     !.java_version = IF child.java_version # 0 THEN child.java_version ELSE @]

\* A merge that takes main_class from the child even when the child has none.
MutMergeChildMainClass(child, base) ==
  [base EXCEPT
     !.inherits_from = 0,
     !.id = child.id,
     !.updated_time = child.updated_time,
     !.release_time = child.release_time,
     !.release_type = child.release_type,
     !.minecraft_arguments = IF child.minecraft_arguments # 0 THEN child.minecraft_arguments ELSE @,
     !.main_class = child.main_class,
     !.assets = IF child.assets # 0 THEN child.assets ELSE @,
     !.jar = IF child.jar # 0 THEN child.jar ELSE @,
     !.asset_index = IF child.asset_index # 0 THEN child.asset_index ELSE @,
     !.libraries = IF child.libraries # <<>> THEN child.libraries \o @ ELSE @,
     !.arguments = [ph \in Phases |-> @[ph] \o child.arguments[ph]],
     !.compatibility_rules = @ \o child.compatibility_rules,
     !.java_version = IF child.java_version # 0 THEN child.java_version ELSE @]

\* A merge that leaves the parent's timestamps in place.
MutMergeParentTimes(child, base) ==
  [base EXCEPT
     !.inherits_from = 0,
     !.id = child.id,
     !.release_type = child.release_type,
     !.minecraft_arguments = IF child.minecraft_arguments # 0 THEN child.minecraft_arguments ELSE @,
     !.main_class = IF child.main_class # 0 THEN child.main_class ELSE @,
     !.assets = IF child.assets # 0 THEN child.assets ELSE @,
     !.jar = IF child.jar # 0 THEN child.jar ELSE @,
     !.asset_index = IF child.asset_index # 0 THEN child.asset_index ELSE @,
     !.libraries = IF child.libraries # <<>> THEN child.libraries \o @ ELSE @,
     !.arguments = [ph \in Phases |-> @[ph] \o child.arguments[ph]],
     !.compatibility_rules = @ \o child.compatibility_rules,
     !.java_version = IF child.java_version # 0 THEN child.java_version ELSE @]

\* A merge that puts the child's arguments and rules before the parent's.
MutMergeChildArgumentsFirst(child, base) ==
  [base EXCEPT
     !.inherits_from = 0,
     !.id = child.id,
     !.updated_time = child.updated_time,
     !.release_time = child.release_time,
     !.release_type = child.release_type,
     !.minecraft_arguments = IF child.minecraft_arguments # 0 THEN child.minecraft_arguments ELSE @,
     !.main_class = IF child.main_class # 0 THEN child.main_class ELSE @,
     !.assets = IF child.assets # 0 THEN child.assets ELSE @,
     !.jar = IF child.jar # 0 THEN child.jar ELSE @,
     !.asset_index = IF child.asset_index # 0 THEN child.asset_index ELSE @,
     !.libraries = IF child.libraries # <<>> THEN child.libraries \o @ ELSE @,
     !.arguments = [ph \in Phases |-> child.arguments[ph] \o @[ph]],
     !.compatibility_rules = child.compatibility_rules \o @,
     !.java_version = IF child.java_version # 0 THEN child.java_version ELSE @]

\* A merge that takes the download records from the child when it has them.
MutMergeChildDownloads(child, base) ==
  [base EXCEPT
     !.inherits_from = 0,
     !.id = child.id,
     !.updated_time = child.updated_time,
     !.release_time = child.release_time,
     !.release_type = child.release_type,
     !.minecraft_arguments = IF child.minecraft_arguments # 0 THEN child.minecraft_arguments ELSE @,
     !.main_class = IF child.main_class # 0 THEN child.main_class ELSE @,
     !.assets = IF child.assets # 0 THEN child.assets ELSE @,
     !.jar = IF child.jar # 0 THEN child.jar ELSE @,
     !.asset_index = IF child.asset_index # 0 THEN child.asset_index ELSE @,
     !.libraries = IF child.libraries # <<>> THEN child.libraries \o @ ELSE @,
     !.arguments = [ph \in Phases |-> @[ph] \o child.arguments[ph]],
     !.compatibility_rules = @ \o child.compatibility_rules,
     !.java_version = IF child.java_version # 0 THEN child.java_version ELSE @,
     !.downloads = IF child.downloads # 0 THEN child.downloads ELSE @]

\* The merge at the end of resolve: the parent is the base, the child's identity wins.
Merge(child, base) ==
  [base EXCEPT
     !.inherits_from = 0,
     !.id = child.id,
     !.updated_time = child.updated_time,
     !.release_time = child.release_time,
     !.release_type = child.release_type,
     !.minecraft_arguments = IF child.minecraft_arguments # 0 THEN child.minecraft_arguments ELSE @,
     !.main_class = IF child.main_class # 0 THEN child.main_class ELSE @,
     !.assets = IF child.assets # 0 THEN child.assets ELSE @,
     !.jar = IF child.jar # 0 THEN child.jar ELSE @,
     !.asset_index = IF child.asset_index # 0 THEN child.asset_index ELSE @,
     !.libraries = IF child.libraries # <<>> THEN child.libraries \o @ ELSE @,
     !.arguments = [ph \in Phases |-> @[ph] \o child.arguments[ph]],
     !.compatibility_rules = @ \o child.compatibility_rules,
     !.java_version = IF child.java_version # 0 THEN child.java_version ELSE @]

\* A copy that carries the identity only.
MutCloneIdentityOnly(m) ==
  [NoManifest EXCEPT !.id = m.id, !.updated_time = m.updated_time,
                     !.release_time = m.release_time, !.release_type = m.release_type]

\* `self.clone()`, what resolve returns for a manifest without a parent.
Clone(m) == m

InitResolve ==
  /\ parent_of \in [Versions -> 0..MaxVersions]
  /\ declares = [v \in Versions |-> Fields]
  /\ arg = NoManifest
  /\ first = NoReturn
  /\ last_fetch = NoFetch
  /\ \E status \in [Versions -> {"absent", "remote", "local", "fresh", "stale"}] :
       /\ local_store = [v \in Versions |->
            IF status[v] \in {"local", "fresh", "stale"}
              THEN Manifest(v, IF status[v] = "stale" THEN 0 ELSE 1)
              ELSE NoManifest]
       /\ local_cache = SelectSeq(SeqOfRange(1, MaxVersions),
                                  LAMBDA v : status[v] \in {"local", "fresh", "stale"})
       /\ remote_cache = {v \in Versions : status[v] \in {"remote", "fresh", "stale"}}
  /\ files_on_disk \in BOOLEAN
  /\ stack = <<>>
  /\ ret = NoReturn
  /\ installs = 0
  /\ install_failed = FALSE
  /\ root = 0
  /\ rpc = "idle"

\* One inheritance chain r -> r-1 -> ... -> 1 of manifests that specify different parts;
\* the versions above r are unknown to the launcher. Version r is the installed one a
\* caller resolves (resolve never looks its own version up in the remote index).
InitChain ==
  /\ \E r \in 1..MaxChain :
       /\ parent_of = [v \in 1..MaxChain |-> IF 1 < v /\ v <= r THEN v - 1 ELSE 0]
       /\ \E d \in [1..r -> Profiles] :
            declares = [v \in 1..MaxChain |-> IF v <= r THEN d[v] ELSE {}]
       /\ \E st \in [1..r -> {"remote", "local", "fresh", "stale"}] :
            LET status == [v \in 1..MaxChain |-> IF v <= r THEN st[v] ELSE "absent"]
            IN /\ st[r] \in {"local", "stale"}
               /\ local_store = [v \in 1..MaxChain |->
                    IF status[v] \in {"local", "fresh", "stale"}
                      THEN Manifest(v, IF status[v] = "stale" THEN 0 ELSE 1)
                      ELSE NoManifest]
               /\ local_cache = SelectSeq(SeqOfRange(1, MaxChain),
                                          LAMBDA v : status[v] \in {"local", "fresh", "stale"})
               /\ remote_cache = {v \in 1..MaxChain : status[v] \in {"remote", "fresh", "stale"}}
  /\ files_on_disk \in BOOLEAN
  /\ arg = NoManifest
  /\ first = NoReturn
  /\ last_fetch = NoFetch
  /\ stack = <<>>
  /\ ret = NoReturn
  /\ installs = 0
  /\ install_failed = FALSE
  /\ root = 0
  /\ rpc = "idle"

\* No resolution: the state of the resolver variables while another component is examined.
IdleResolve ==
  /\ parent_of = <<>>
  /\ declares = <<>>
  /\ arg = NoManifest
  /\ first = NoReturn
  /\ last_fetch = NoFetch
  /\ local_store = <<>>
  /\ local_cache = <<>>
  /\ remote_cache = {}
  /\ files_on_disk = FALSE
  /\ stack = <<>>
  /\ ret = NoReturn
  /\ installs = 0
  /\ install_failed = FALSE
  /\ root = 0
  /\ rpc = "off"

Top == stack[Len(stack)]
Popped == SubSeq(stack, 1, Len(stack) - 1)

\* The running call returns r to its caller (or to the user, from the outermost call).
Return(r) ==
  /\ stack' = Popped
  /\ ret' = r
  /\ rpc' = IF Len(stack) = 1 THEN "done" ELSE rpc

\* The running call, now in state `caller`, calls `callee` and awaits it.
Call(caller, callee) ==
  /\ ret' = NoReturn
  /\ IF Len(stack) < MaxDepth
       THEN /\ stack' = Append([stack EXCEPT ![Len(stack)] = caller], callee)
            /\ rpc' = rpc
       ELSE /\ stack' = stack
            /\ rpc' = "overflow"

\* A caller resolves a locally installed manifest with an empty trace.
CallResolve(v) ==
  /\ rpc = "idle"
  /\ GetInstalledVersion(v) # NoManifest
  /\ stack' = <<Frame("resolve", GetInstalledVersion(v), {})>>
  /\ rpc' = "running"
  /\ root' = v
  /\ arg' = GetInstalledVersion(v)
  /\ UNCHANGED nonResVars
  /\ UNCHANGED <<parent_of, declares, last_fetch, first, local_store, local_cache,
                 remote_cache, files_on_disk, ret, installs, install_failed>>

\* The caller resolves the manifest its first resolve returned.
ResolveAgain ==
  /\ rpc = "done"
  /\ ret.kind = "ok"
  /\ first = NoReturn
  /\ first' = ret
  /\ stack' = <<Frame("resolve", ret.manifest, {})>>
  /\ rpc' = "running"
  /\ UNCHANGED nonResVars
  /\ UNCHANGED <<parent_of, declares, last_fetch, arg, local_store, local_cache,
                 remote_cache, files_on_disk, ret, installs, install_failed, root>>

\* install_version_by_id(v) called by resolve (now in state `caller`), then the
\* recursive resolve of the manifest it returned; body is what the download of the
\* manifest gave.
InstallThenResolve(caller, v, body) ==
  /\ last_fetch' = IF GetRemoteVersion(v) THEN [id |-> v, body |-> body] ELSE last_fetch
  /\ IF ~GetRemoteVersion(v) \/ Fetch(v, body) # "Ok"
       THEN /\ Return(ReturnErr(IF GetRemoteVersion(v) THEN Fetch(v, body) ELSE "VersionNotFound"))
            /\ install_failed' = TRUE
            /\ UNCHANGED <<local_store, local_cache, installs>>
       ELSE /\ local_store' = [local_store EXCEPT ![v] = RemoteManifest(v)]
            /\ local_cache' = Append(local_cache, v)
            /\ installs' = installs + 1
            /\ Call([caller EXCEPT !.pc = "wait_parent", !.local = RemoteManifest(v)],
                    [Frame("resolve", RemoteManifest(v), caller.trace)
                       EXCEPT !.installs = installs + 1])
            /\ UNCHANGED install_failed

\* resolve, from its entry to its first await (or its return).
ResolveEnter(body) ==
  /\ rpc = "running"
  /\ Top.fn = "resolve"
  /\ Top.pc = "enter"
  /\ LET self == Top.self
         entered == [Top EXCEPT !.trace = TraceInsert(Top.trace, self.id)]
         local == GetInstalledVersion(self.inherits_from)
     IN IF self.inherits_from = 0
          THEN /\ Return(ReturnOk(Clone(self)))
               /\ UNCHANGED <<local_store, local_cache, installs, install_failed, last_fetch>>
          ELSE IF self.id \in Top.trace
            THEN /\ Return(ReturnErr("CircularDependency"))
                 /\ UNCHANGED <<local_store, local_cache, installs, install_failed, last_fetch>>
            ELSE IF local # NoManifest
              THEN /\ Call([entered EXCEPT !.pc = "wait_up_to_date", !.local = local],
                           Frame("is_up_to_date", local, {}))
                   /\ UNCHANGED <<local_store, local_cache, installs, install_failed, last_fetch>>
              ELSE InstallThenResolve(entered, self.inherits_from, body)
  /\ UNCHANGED nonResVars
  /\ UNCHANGED <<parent_of, declares, remote_cache, files_on_disk, root, arg, first>>

\* resolve, after is_up_to_date(local_version) has answered.
ResolveAfterUpToDate(body) ==
  /\ rpc = "running"
  /\ Top.fn = "resolve"
  /\ Top.pc = "wait_up_to_date"
  /\ IF ret.b
       THEN /\ Call([Top EXCEPT !.pc = "wait_parent"], Frame("resolve", Top.local, Top.trace))
            /\ UNCHANGED <<local_store, local_cache, installs, install_failed, last_fetch>>
       ELSE InstallThenResolve(Top, Top.self.inherits_from, body)
  /\ UNCHANGED nonResVars
  /\ UNCHANGED <<parent_of, declares, remote_cache, files_on_disk, root, arg, first>>

\* resolve, after the parent's resolve has returned: propagate the error or merge.
ResolveAfterParent ==
  /\ rpc = "running"
  /\ Top.fn = "resolve"
  /\ Top.pc = "wait_parent"
  /\ IF ret.kind = "err"
       THEN Return(ret)
       ELSE Return(ReturnOk(Merge(Top.self, ret.manifest)))
  /\ UNCHANGED nonResVars
  /\ UNCHANGED <<parent_of, declares, last_fetch, local_store, local_cache, remote_cache,
                 files_on_disk, installs, install_failed, root, arg, first>>

\* is_up_to_date, from its entry to its await of resolve (or its return).
UpToDateEnter ==
  /\ rpc = "running"
  /\ Top.fn = "is_up_to_date"
  /\ Top.pc = "enter"
  /\ IF GetRemoteVersion(Top.self.id)
       THEN IF RemoteManifest(Top.self.id).updated_time > Top.self.updated_time
              THEN Return(ReturnBool(FALSE))
              ELSE Call([Top EXCEPT !.pc = "wait_resolve"], Frame("resolve", Top.self, {}))
       ELSE Return(ReturnBool(TRUE))
  /\ UNCHANGED nonResVars
  /\ UNCHANGED <<parent_of, declares, last_fetch, local_store, local_cache, remote_cache,
                 files_on_disk, installs, install_failed, root, arg, first>>

\* is_up_to_date, after its own resolve has returned.
UpToDateAfterResolve ==
  /\ rpc = "running"
  /\ Top.fn = "is_up_to_date"
  /\ Top.pc = "wait_resolve"
  /\ IF ret.kind = "ok"
       THEN Return(ReturnBool(HasAllFiles(ret.manifest)))
       ELSE Return(ReturnBool(HasAllFiles(Top.self)))
  /\ UNCHANGED nonResVars
  /\ UNCHANGED <<parent_of, declares, last_fetch, local_store, local_cache, remote_cache,
                 files_on_disk, installs, install_failed, root, arg, first>>

\* ------------------------------------------------------ resolver: claims

\* The version reached from v after n steps along inherits_from (0 = the chain ended).
RECURSIVE Ancestor(_, _)
Ancestor(v, n) ==
  IF n = 0 \/ v = 0 THEN v ELSE Ancestor(parent_of[v], n - 1)

\* The parent chain of v contains a repeated identifier.
ChainRepeats(v) == Ancestor(v, MaxVersions) # 0

\* Two nested calls of the same function on the same manifest with the same trace,
\* with no install between them: the second repeats the first, and so on for ever.
SameCall(f, g) ==
  /\ f.fn = g.fn
  /\ f.self = g.self
  /\ f.trace0 = g.trace0
  /\ f.installs = g.installs

\* C8: a manifest whose parent chain repeats an identifier makes resolve fail with a
\* circular-dependency error (unless a parent could not be obtained at all), and
\* resolve never recurses without bound, also through is_up_to_date.
C8_CycleAlwaysDetected ==
  /\ \A i, j \in DOMAIN stack : i < j => ~SameCall(stack[i], stack[j])
  /\ rpc # "overflow"
  /\ (rpc = "done" /\ ChainRepeats(root)) =>
       /\ ret.kind = "err"
       /\ ~install_failed => ret.err = "CircularDependency"

\* The caller's resolve (not the repeated one) has returned a manifest.
Resolved == rpc = "done" /\ ret.kind = "ok" /\ first = NoReturn

\* The repeated resolve has returned.
ResolvedAgain == rpc = "done" /\ first # NoReturn

\* C11: resolving a manifest without inherits_from returns it unchanged, and resolving
\* the result of a successful resolve again returns that result, equal in every field.
C11_Idempotent ==
  /\ (Resolved /\ arg.inherits_from = 0) => ret.manifest = arg
  /\ ResolvedAgain => ret = first

C11_Witness ==
  /\ ResolvedAgain
  /\ arg.inherits_from # 0
  /\ first.manifest.libraries # <<>>
  /\ ret = first

\* C12: a manifest returned by a successful resolve has no inherits_from, whatever the
\* length of the chain.
C12_Flattened == (rpc = "done" /\ ret.kind = "ok") => ret.manifest.inherits_from = 0

C12_Witness ==
  /\ Resolved
  /\ arg.inherits_from # 0
  /\ parent_of[arg.inherits_from] # 0
  /\ ret.manifest.inherits_from = 0

\* The libraries of version v and of its ancestors, nearest first.
RECURSIVE ChainLibraries(_)
ChainLibraries(v) ==
  IF v = 0 THEN <<>> ELSE Manifest(v, 1).libraries \o ChainLibraries(parent_of[v])

\* C13: the merged library list is the child's libraries in their order, then the
\* parent's, then the grandparent's, and so on along the chain.
C13_ChildLibrariesFirst ==
  Resolved => ret.manifest.libraries = arg.libraries \o ChainLibraries(arg.inherits_from)

C13_Witness ==
  /\ Resolved
  /\ arg.inherits_from # 0
  /\ parent_of[arg.inherits_from] # 0
  /\ Len(arg.libraries) = 2
  /\ Manifest(arg.inherits_from, 1).libraries # <<>>
  /\ Manifest(parent_of[arg.inherits_from], 1).libraries # <<>>
  /\ SubSeq(ret.manifest.libraries, 1, 2) = arg.libraries

\* The value of the optional field f that version v or its nearest ancestor specifies.
RECURSIVE ChainValue(_, _)
ChainValue(v, f) ==
  IF v = 0 THEN 0
  ELSE IF Manifest(v, 1)[f] # 0 THEN Manifest(v, 1)[f]
  ELSE ChainValue(parent_of[v], f)

\* C14: main_class, assets, jar, asset_index and java_version of the merged manifest are
\* the child's where the child specifies them and the resolved parent's otherwise.
C14_SparseOverride ==
  Resolved =>
    \A f \in {"main_class", "assets", "jar", "asset_index", "java_version"} :
      ret.manifest[f] = IF arg[f] # 0 THEN arg[f] ELSE ChainValue(arg.inherits_from, f)

\* A child without main_class resolves to its parent's main_class.
C14_Witness ==
  /\ Resolved
  /\ arg.inherits_from # 0
  /\ arg.main_class = 0
  /\ Manifest(arg.inherits_from, 1).main_class # 0
  /\ ret.manifest.main_class = arg.inherits_from
  /\ arg.assets # 0
  /\ ret.manifest.assets = arg.id

\* C24: the manifest resolved from a child with a parent carries the child's id,
\* release type, release time and last-updated time, whatever its ancestors have.
C24_ChildIdentity ==
  (Resolved /\ arg.inherits_from # 0) =>
    \A f \in {"id", "release_type", "release_time", "updated_time"} : ret.manifest[f] = arg[f]

\* A child published at another time than its parent, resolved.
C24_Witness ==
  /\ Resolved
  /\ arg.inherits_from # 0
  /\ arg.updated_time # Manifest(arg.inherits_from, 1).updated_time
  /\ ret.manifest.updated_time = arg.updated_time
  /\ ret.manifest.id = arg.id
  /\ ret.manifest.release_time # Manifest(arg.inherits_from, 1).release_time

\* The arguments of phase ph of version v's ancestors and of v, farthest ancestor first.
RECURSIVE ChainArguments(_, _)
ChainArguments(v, ph) ==
  IF v = 0 THEN <<>> ELSE ChainArguments(parent_of[v], ph) \o Manifest(v, 1).arguments[ph]

\* The compatibility rules of version v's ancestors and of v, farthest ancestor first.
RECURSIVE ChainRules(_)
ChainRules(v) ==
  IF v = 0 THEN <<>> ELSE ChainRules(parent_of[v]) \o Manifest(v, 1).compatibility_rules

\* C25: per phase, the merged argument list is the resolved parent's entries followed
\* by the child's (the child's alone when only the child has the phase); the merged
\* compatibility rules are the parent's followed by the child's.
C25_ParentThenChild ==
  (Resolved /\ arg.inherits_from # 0) =>
    /\ \A ph \in Phases :
         ret.manifest.arguments[ph] = ChainArguments(arg.inherits_from, ph) \o arg.arguments[ph]
    /\ ret.manifest.compatibility_rules = ChainRules(arg.inherits_from) \o arg.compatibility_rules

\* Parent and child both have game arguments and rules; the grandparent has jvm ones.
C25_Witness ==
  /\ Resolved
  /\ arg.inherits_from # 0
  /\ parent_of[arg.inherits_from] # 0
  /\ arg.arguments["game"] # <<>>
  /\ arg.compatibility_rules # <<>>
  /\ Manifest(arg.inherits_from, 1).arguments["game"] # <<>>
  /\ Manifest(arg.inherits_from, 1).compatibility_rules # <<>>
  /\ Manifest(parent_of[arg.inherits_from], 1).arguments["jvm"] # <<>>
  /\ Len(ret.manifest.arguments["game"]) = 2
  /\ ret.manifest.arguments["game"][2] = arg.arguments["game"][1]
  /\ ret.manifest.compatibility_rules[2] = arg.compatibility_rules[1]

\* A phase that only the child has is taken from the child.
C25_WitnessChildOnly ==
  /\ Resolved
  /\ arg.inherits_from # 0
  /\ arg.arguments["jvm"] # <<>>
  /\ ChainArguments(arg.inherits_from, "jvm") = <<>>
  /\ ret.manifest.arguments["jvm"] = arg.arguments["jvm"]

\* The farthest ancestor of version v, the base of every merge along the chain.
RECURSIVE ChainBase(_)
ChainBase(v) == IF parent_of[v] = 0 THEN v ELSE ChainBase(parent_of[v])

\* The fields of a manifest that the merge does not name.
Unnamed == {"downloads", "logging", "compliance_level", "minimum_launcher_version"}

\* C26: the fields the merge does not name have in the merged manifest the resolved
\* parent's value (the one of the chain's base), never the child's own.
C26_UnnamedFromParent ==
  (Resolved /\ arg.inherits_from # 0) =>
    \A f \in Unnamed : ret.manifest[f] = Manifest(ChainBase(arg.inherits_from), 1)[f]

\* The child's own download records are dropped for the parent's.
C26_Witness ==
  /\ Resolved
  /\ arg.inherits_from # 0
  /\ arg.downloads # 0
  /\ ret.manifest.downloads # arg.downloads
  /\ ret.manifest.downloads = Manifest(arg.inherits_from, 1).downloads
  /\ ret.manifest.downloads # 0

\* The child's logging entries are dropped although the parent has none.
C26_WitnessDropped ==
  /\ Resolved
  /\ arg.inherits_from # 0
  /\ arg.logging # 0
  /\ ret.manifest.logging = 0

\* C15: is_up_to_date answers true only if the remote index has nothing newer than the
\* manifest and every library file of the fully resolved manifest is on disk; with a
\* file missing it answers false, also for a version the remote index does not list.
C15_UpToDateNeedsFiles ==
  \A i \in DOMAIN stack :
    (i = Len(stack) /\ stack[i].pc = "wait_up_to_date" /\ ret.kind = "bool" /\ ret.b) =>
      LET m == stack[i].local
      IN /\ GetRemoteVersion(m.id) => RemoteManifest(m.id).updated_time <= m.updated_time
         /\ m.libraries \o ChainLibraries(m.inherits_from) # <<>> => files_on_disk

\* C15 without the files: a true answer means the remote index has nothing newer.
C15_UpToDateNotStale ==
  \A i \in DOMAIN stack :
    (i = Len(stack) /\ stack[i].pc = "wait_up_to_date" /\ ret.kind = "bool" /\ ret.b) =>
      LET m == stack[i].local
      IN GetRemoteVersion(m.id) => RemoteManifest(m.id).updated_time <= m.updated_time

\* C16: a manifest whose checksum differs from the remote index entry is rejected with
\* an error and neither written to the local store nor registered in the local cache;
\* a manifest is written and registered only when its checksum matched.
C16_ChecksumBeforeInstall ==
  [][/\ ret'.err = "Sha1Mismatch" => UNCHANGED <<local_store, local_cache>>
     /\ (local_store' # local_store \/ local_cache' # local_cache) =>
          /\ Sha1Of(last_fetch'.id, last_fetch'.body) = IndexSha1(last_fetch'.id)
          /\ local_store' = [local_store EXCEPT ![last_fetch'.id] = RemoteManifest(last_fetch'.id)]
          /\ local_cache' = Append(local_cache, last_fetch'.id)]_vars

\* An install has just failed on a checksum mismatch.
C16_Witness ==
  /\ ret.err = "Sha1Mismatch"
  /\ last_fetch.body = "corrupt"
  /\ local_store[last_fetch.id] = NoManifest
  /\ ~InCache(last_fetch.id)

\* ---------------------------------------------------------- rule evaluator
NoOs == [name |-> "None", arch |-> "None", version |-> "None"]

\* OS restrictions a rule may carry; a version is a regex, given by what it does on
\* the current OS version: "matching", "non_matching" or "invalid" (Regex::new fails).
OsChoices ==
  {NoOs,
   [name |-> "linux", arch |-> "None", version |-> "None"],
   [name |-> "windows", arch |-> "x64", version |-> "matching"],
   [name |-> "None", arch |-> "None", version |-> "invalid"]}

\* Option<HashMap<FeatureType, Value>>::None
NoFeatures == [some |-> FALSE, map |-> [t \in {} |-> TRUE]]

\* Feature requirements a rule may carry: None, or a map from feature type to value.
FeatureChoices ==
  {NoFeatures,
   [some |-> TRUE, map |-> [t \in {"IsDemoUser"} |-> TRUE]],
   [some |-> TRUE, map |-> [t \in {"HasCustomResolution"} |-> TRUE]]}

RuleChoices ==
  [action : {"Allow", "Disallow"}, os : OsChoices, features : FeatureChoices]

RECURSIVE RuleLists(_)
RuleLists(n) ==
  IF n = 0 THEN {<<>>}
  ELSE RuleLists(n - 1) \cup
       {Append(l, r) : l \in {x \in RuleLists(n - 1) : Len(x) = n - 1}, r \in RuleChoices}

\* get_arch()
GetArch == "x64"

\* OsRestriction::is_current_operating_system
IsCurrentOperatingSystem(os) ==
  IF os.name # "None" /\ current_os # os.name THEN FALSE
  ELSE IF os.arch # "None" /\ GetArch # os.arch THEN FALSE
  ELSE IF os.version # "None" /\ os.version # "invalid" /\ os.version # "matching" THEN FALSE
  ELSE TRUE

\* MinecraftFeatureMatcher::has_feature, for a boolean value
HasFeature(feature_type, value) ==
  IF feature_type = "IsDemoUser" THEN value = env_features.is_demo
  ELSE IF feature_type = "HasCustomResolution" THEN value = env_features.custom_resolution
  ELSE FALSE

\* A rule without feature requirements never applies.
MutGetAppliedActionNeedsFeatures(rule, feature_matcher) ==
  IF rule.os # NoOs /\ ~IsCurrentOperatingSystem(rule.os) THEN "None"
  ELSE IF ~rule.features.some THEN "None"
  ELSE IF feature_matcher = "None" THEN "None"
  ELSE IF \E t \in DOMAIN rule.features.map : ~HasFeature(t, rule.features.map[t]) THEN "None"
  ELSE rule.action

\* Rule::get_applied_action: the rule's action, or "None" when the rule does not match.
\* feature_matcher is "None" or "Some" (the matcher of env_features).
GetAppliedAction(rule, feature_matcher) ==
  IF rule.os # NoOs /\ ~IsCurrentOperatingSystem(rule.os) THEN "None"
  ELSE IF rule.features.some /\ feature_matcher = "None" THEN "None"
  ELSE IF rule.features.some /\
          (\E t \in DOMAIN rule.features.map : ~HasFeature(t, rule.features.map[t])) THEN "None"
  ELSE rule.action

\* A loop body that never overwrites an Allow.
MutLoopBodyKeepsAllow(acc, rule) ==
  IF GetAppliedAction(rule, "Some") # "None" /\ acc # "Allow"
    THEN GetAppliedAction(rule, "Some")
    ELSE acc

\* The body of the loop over the rules: a matching rule overwrites the running action.
LoopBody(acc, rule) ==
  IF GetAppliedAction(rule, "Some") # "None" THEN GetAppliedAction(rule, "Some") ELSE acc

\* The three holders of a rule list: Library.rules, Argument::Object.rules and
\* VersionManifest.compatibility_rules.
Subjects == {"library", "argument", "manifest"}

\* `if self.rules.is_empty() { return true; }`: Library and VersionManifest have
\* it, Argument::Object goes straight to the loop.
ReturnsEarly(s, rs) == s # "argument" /\ rs = <<>>

\* A rule list of any of the three holders.
InitSubjects ==
  /\ subject \in Subjects
  /\ rules \in RuleLists(MaxRules)
  /\ env_features \in [is_demo : BOOLEAN, custom_resolution : BOOLEAN]
  /\ current_os \in {"linux", "windows"}
  /\ action = "None"
  /\ rule_idx = 0
  /\ applies = "None"
  /\ epc = "idle"

InitRules ==
  /\ subject = "library"
  /\ rules \in RuleLists(MaxRules)
  /\ env_features \in [is_demo : BOOLEAN, custom_resolution : BOOLEAN]
  /\ current_os \in {"linux", "windows"}
  /\ action = "None"
  /\ rule_idx = 0
  /\ applies = "None"
  /\ epc = "idle"

\* No evaluation: the state of the rule variables while another component is examined.
IdleRules ==
  /\ subject = "library"
  /\ rules = <<>>
  /\ env_features = [is_demo |-> FALSE, custom_resolution |-> FALSE]
  /\ current_os = "linux"
  /\ action = "None"
  /\ rule_idx = 0
  /\ applies = "None"
  /\ epc = "off"

\* applies_to_current_environment up to the loop: an early return gives true.
BeginEvaluation ==
  /\ epc = "idle"
  /\ IF ReturnsEarly(subject, rules)
       THEN /\ applies' = "Allow"
            /\ epc' = "done"
            /\ UNCHANGED <<action, rule_idx>>
       ELSE /\ action' = "Disallow"
            /\ rule_idx' = 1
            /\ epc' = "loop"
            /\ UNCHANGED applies
  /\ UNCHANGED nonRuleVars
  /\ UNCHANGED <<subject, rules, env_features, current_os>>

\* One iteration of `for rule in &self.rules`.
EvaluateRule ==
  /\ epc = "loop"
  /\ rule_idx <= Len(rules)
  /\ action' = LoopBody(action, rules[rule_idx])
  /\ rule_idx' = rule_idx + 1
  /\ UNCHANGED nonRuleVars
  /\ UNCHANGED <<subject, rules, env_features, current_os, applies, epc>>

\* The loop is over: `action == RuleAction::Allow`.
EndEvaluation ==
  /\ epc = "loop"
  /\ rule_idx > Len(rules)
  /\ applies' = IF action = "Allow" THEN "Allow" ELSE "Disallow"
  /\ epc' = "done"
  /\ UNCHANGED nonRuleVars
  /\ UNCHANGED <<subject, rules, env_features, current_os, action, rule_idx>>

\* ------------------------------------------------- rule evaluator: claims

\* The indices of the rules that match the current environment.
Matching == {i \in DOMAIN rules : GetAppliedAction(rules[i], "Some") # "None"}

\* No rule of the list has an OS restriction or a feature requirement.
Unrestricted == \A i \in DOMAIN rules : rules[i].os = NoOs /\ ~rules[i].features.some

\* C9: an empty list gives Allow; a non-empty list gives the action of the last
\* matching rule in declaration order, and Disallow when no rule matches.
C9_LastMatchWins ==
  epc = "done" =>
    applies = IF rules = <<>> THEN "Allow"
              ELSE IF Matching = {} THEN "Disallow"
              ELSE rules[CHOOSE i \in Matching : \A j \in Matching : j <= i].action

C9_Witness ==
  /\ epc = "done"
  /\ Len(rules) = 2
  /\ Matching = {1, 2}
  /\ rules[1].action = "Allow"
  /\ rules[2].action = "Disallow"
  /\ applies = "Disallow"

\* C9's example: a single Disallow rule with an unsatisfied feature requirement.
C9_WitnessUnmatchedDisallow ==
  /\ epc = "done"
  /\ Len(rules) = 1
  /\ rules[1].action = "Disallow"
  /\ rules[1].features.some
  /\ Matching = {}
  /\ applies = "Disallow"

\* C10 as stated: every rule list without OS/feature restrictions evaluates to Allow.
C10_UnrestrictedAllow == (epc = "done" /\ Unrestricted) => applies = "Allow"

\* C10 amended: a rule list without OS/feature restrictions evaluates to Allow when it
\* is empty and to the action of its last rule otherwise.
C10_UnrestrictedLastAction ==
  (epc = "done" /\ Unrestricted) =>
    applies = IF rules = <<>> THEN "Allow" ELSE rules[Len(rules)].action

C10_Witness ==
  /\ epc = "done"
  /\ Unrestricted
  /\ rules # <<>>
  /\ rules[Len(rules)].action = "Disallow"
  /\ applies = "Disallow"

\* The shared evaluation: Allow for an empty list, else the action of the last
\* matching rule, Disallow when none matches.
SharedEvaluation ==
  IF rules = <<>> THEN "Allow"
  ELSE IF Matching = {} THEN "Disallow"
  ELSE rules[CHOOSE i \in Matching : \A j \in Matching : j <= i].action

\* C23: library applicability, per-argument applicability and manifest-level gating
\* all give the shared evaluation of their rule list, the empty list included.
C23_SameEvaluation == epc = "done" => applies = SharedEvaluation

\* C23 on non-empty rule lists, and on libraries and manifests for every list.
C23_SameUnlessEmptyArgument ==
  (epc = "done" /\ ~(subject = "argument" /\ rules = <<>>)) => applies = SharedEvaluation

\* ------------------------------------------------------------- downloadables
\* What a file or a response body can hold: the published artifact or anything else
\* (another version of it, a truncated or damaged copy).
Contents == {"good", "other"}

\* What the file of an asset can hold besides: other bytes of the published length.
AssetContents == Contents \cup {"same_size"}

\* Sha1Sum::from_reader of a content.
FileSha1(content) ==
  IF content = "good" THEN "sha1(good)"
  ELSE IF content = "same_size" THEN "sha1(same_size)"
  ELSE "sha1(other)"

\* metadata().len() of a content, as a multiple of some unit.
FileLen(content) == IF content = "other" THEN 2 ELSE 1

\* Compressed copies a server may hold: the gzip of a content.
Compressed == {"gz(good)", "gz(other)"}

\* gzip::Decoder::read_to_end of a compressed copy.
Gunzip(z) == IF z = "gz(good)" THEN "good" ELSE "other"

\* Sha1Sum::from_reader of a compressed copy.
CompressedSha1(z) == IF z = "gz(good)" THEN "sha1(gz(good))" ELSE "sha1(gz(other))"

\* The AssetObject of the published artifact; the index may name a compressed copy,
\* the right one or one that unpacks to something else.
AssetObjectsOf ==
  [hash : {FileSha1("good")}, size : {FileLen("good")},
   compressed_hash : {"none"} \cup {CompressedSha1(z) : z \in Compressed}]

NoAsset == [hash |-> "none", size |-> 0, compressed_hash |-> "none"]

\* AssetObject::has_compressed_alternative
HasCompressedAlternative(a) == a.compressed_hash # "none"

\* md5::compute of a content: the digest bytes (two stand for the sixteen).
Md5(content) == IF content = "good" THEN <<171, 205>> ELSE <<52, 50>>

\* The lower-case hex digit of n, as a byte.
HexDigit(n) == IF n < 10 THEN 48 + n ELSE 87 + n

RECURSIVE Hex(_)
\* The hex form of a byte string, as the bytes of its text.
Hex(bytes) ==
  IF bytes = <<>> THEN <<>>
  ELSE <<HexDigit(Head(bytes) \div 16), HexDigit(Head(bytes) % 16)>> \o Hex(Tail(bytes))

\* The bytes of '-' and '"'.
Dash == 45
Quote == 34

\* headers().get("ETag"): None, or the bytes of the header value.
NoHeader == [present |-> FALSE, bytes |-> <<>>]
Header(bytes) == [present |-> TRUE, bytes |-> bytes]

\* ETag headers a server may send with a body: none, the hex MD5 of a content bare or
\* quoted, a multipart tag, or the digest bytes themselves.
EtagHeaders ==
  {NoHeader} \cup
  {Header(Hex(Md5(c))) : c \in Contents} \cup
  {Header(<<Quote>> \o Hex(Md5(c)) \o <<Quote>>) : c \in Contents} \cup
  {Header(Hex(Md5(c)) \o <<Dash, 50>>) : c \in Contents} \cup
  {Header(Md5(c)) : c \in Contents}

\* HeaderValue::to_str succeeds: every byte is visible ASCII.
ToStrOk(bytes) == \A i \in DOMAIN bytes : bytes[i] >= 32 /\ bytes[i] < 127

\* EtagDownloadable::get_etag
GetEtag(header) ==
  LET etag == IF header.present /\ ToStrOk(header.bytes) THEN header.bytes ELSE <<Dash>>
  IN IF etag # <<>> /\ Head(etag) = Quote /\ etag[Len(etag)] = Quote
       THEN SubSeq(etag, 2, Len(etag) - 1)
       ELSE etag

\* etag.contains('-')
ContainsDash(etag) == \E i \in DOMAIN etag : etag[i] = Dash

\* `etag.as_bytes() == md5`, md5 being the digest bytes of md5::compute.
EtagMatches(etag, body) == etag = Md5(body)

\* ChecksummedDownloadable::NULL_SHA1
NULL_SHA1 == "0000000000000000000000000000000000000000"

\* PreHashedDownloadable.expected_hash: the checksum the manifest gives for the artifact.
PreHash == FileSha1("good")

\* What GET url can answer: an error (no connection, error status) or a body.
UrlResponses == {"error"} \cup Contents

\* What GET url.sha1 can answer: an error, text that is no 40-digit hex number, or a
\* checksum in hex (that of a content, or forty zeros).
Sha1Responses == {"unreachable", "unusable"} \cup {FileSha1(c) : c \in Contents} \cup {NULL_SHA1}

NoResponses == [sha1 |-> "none", url |-> "none", etag |-> NoHeader]

\* What is remembered of the state in which download was called.
Before ==
  [file |-> target_file, compressed |-> compressed_target, requests |-> requests,
   sha1_requests |-> sha1_requests, attempts |-> dl_attempts, result |-> dl_result]

NoBefore ==
  [file |-> "absent", compressed |-> "absent", requests |-> 0, sha1_requests |-> 0,
   attempts |-> 0, result |-> "None"]

\* A pre-hashed download that never trusts the local file.
MutPreHashedNeverLocal(file) == FALSE

\* PreHashedDownloadable::download: the local file is there and has the expected hash.
PreHashedUsesLocal(file) == file # "absent" /\ FileSha1(file) = PreHash

\* get_remote_hash(..).unwrap_or(NULL_SHA1)
RemoteHashOrNull(resp) == IF resp \in {"unreachable", "unusable"} THEN NULL_SHA1 ELSE resp

\* Some(Sha1Sum::from_reader(File::open(target_file))) or None
LocalHash(file) == IF file = "absent" THEN "unset" ELSE FileSha1(file)

\* A download that trusts a local copy only when the remote checksum is known.
MutChecksummedUsesLocalKnownOnly(expected, file) == expected = LocalHash(file)

\* ChecksummedDownloadable::download: the local copy is used, nothing is downloaded.
ChecksummedUsesLocal(expected, file) ==
  \/ expected = NULL_SHA1 /\ file # "absent"
  \/ expected = LocalHash(file)

\* A check of the downloaded bytes that forgets the unknown checksum.
MutDownloadedStrict(expected, body) == expected = FileSha1(body)

\* ChecksummedDownloadable::download: the downloaded bytes are accepted.
DownloadedAccepted(expected, body) ==
  \/ expected = NULL_SHA1
  \/ expected = FileSha1(body)

InitDownload ==
  /\ strategy \in {"prehashed", "checksummed", "etag", "asset"}
  /\ asset \in IF strategy = "asset" THEN AssetObjectsOf ELSE {NoAsset}
  /\ compressed_target \in
       IF HasCompressedAlternative(asset) THEN {"absent"} \cup Compressed ELSE {"absent"}
  /\ target_file \in {"absent"} \cup (IF strategy = "asset" THEN AssetContents ELSE Contents)
  /\ parent_dir \in {"exists", "creatable", "blocked"}
  /\ (target_file # "absent" \/ compressed_target # "absent") => parent_dir = "exists"
  /\ dl_attempts = 0
  /\ expected_hash = "unset"
  /\ requests = 0
  /\ sha1_requests = 0
  /\ responses = NoResponses
  /\ before = NoBefore
  /\ dl_result = "None"
  /\ dl_pc = "idle"

\* No download: the state of these variables while another component is examined.
IdleDownload ==
  /\ strategy = "prehashed"
  /\ asset = NoAsset
  /\ compressed_target = "absent"
  /\ target_file = "absent"
  /\ parent_dir = "exists"
  /\ dl_attempts = 0
  /\ expected_hash = "unset"
  /\ requests = 0
  /\ sha1_requests = 0
  /\ responses = NoResponses
  /\ before = NoBefore
  /\ dl_result = "None"
  /\ dl_pc = "off"

\* download returns r.
DownloadReturns(r) ==
  /\ dl_result' = r
  /\ dl_pc' = "returned"

\* An unpacking that leaves the rejected bytes at the target.
MutDecompressAssetKeeps(z) ==
  /\ target_file' = Gunzip(z)
  /\ DownloadReturns(IF FileSha1(Gunzip(z)) = asset.hash THEN "Ok" ELSE "Err(ChecksumMismatch)")

\* AssetDownloadable::decompress_asset of the compressed copy z: the unpacked bytes
\* are written to the target, and removed again when their hash is not the asset's.
DecompressAsset(z) ==
  IF FileSha1(Gunzip(z)) = asset.hash
    THEN /\ target_file' = Gunzip(z)
         /\ DownloadReturns("Ok")
    ELSE /\ target_file' = "absent"
         /\ DownloadReturns("Err(ChecksumMismatch)")

\* A download that accepts the local target by its hash.
MutAssetHashMatches(file) == file # "absent" /\ FileSha1(file) = asset.hash

\* AssetDownloadable::download: the target is a file of the length the index names.
AssetSizeMatches(file) == file # "absent" /\ FileLen(file) = asset.size

\* AssetDownloadable::download up to its request (or its return): a target of the
\* published length is taken as good, a local compressed copy with the right hash is
\* unpacked, any other local file is removed.
AssetCall ==
  IF AssetSizeMatches(target_file)
    THEN /\ DownloadReturns("Ok")
         /\ UNCHANGED <<target_file, compressed_target>>
    ELSE IF HasCompressedAlternative(asset) /\ compressed_target # "absent"
      THEN IF CompressedSha1(compressed_target) = asset.compressed_hash
             THEN /\ DecompressAsset(compressed_target)
                  /\ UNCHANGED compressed_target
             ELSE /\ compressed_target' = "absent"
                  /\ target_file' = "absent"
                  /\ dl_pc' = "request"
                  /\ dl_result' = "None"
      ELSE /\ target_file' = "absent"
           /\ dl_pc' = "request"
           /\ dl_result' = "None"
           /\ UNCHANGED compressed_target

\* A call of download, up to its first request (or its return): count the attempt,
\* make the parent directory, look at the local file.
DownloadCall ==
  /\ dl_pc \in {"idle", "returned"}
  /\ dl_attempts < MaxAttempts
  /\ dl_attempts' = dl_attempts + 1
  /\ before' = Before
  /\ responses' = NoResponses
  /\ expected_hash' = "unset"
  /\ IF parent_dir = "blocked"
       THEN /\ DownloadReturns("Err(Io)")
            /\ UNCHANGED <<target_file, compressed_target, parent_dir>>
       ELSE /\ parent_dir' = "exists"
            /\ CASE strategy = "prehashed" ->
                      /\ IF PreHashedUsesLocal(target_file)
                           THEN /\ DownloadReturns("Ok")
                                /\ UNCHANGED target_file
                           ELSE /\ target_file' = "absent"
                                /\ dl_pc' = "request"
                                /\ dl_result' = "None"
                      /\ UNCHANGED compressed_target
                 [] strategy = "checksummed" ->
                      /\ dl_pc' = "sha1_request"
                      /\ dl_result' = "None"
                      /\ UNCHANGED <<target_file, compressed_target>>
                 [] strategy = "etag" ->
                      /\ dl_pc' = "request"
                      /\ dl_result' = "None"
                      /\ UNCHANGED <<target_file, compressed_target>>
                 [] strategy = "asset" -> AssetCall
  /\ UNCHANGED nonDlVars
  /\ UNCHANGED <<strategy, asset, requests, sha1_requests>>

\* ChecksummedDownloadable::download from the answer of url.sha1 to the request of url
\* (or the return).
Sha1Response(resp) ==
  /\ dl_pc = "sha1_request"
  /\ sha1_requests' = sha1_requests + 1
  /\ responses' = [responses EXCEPT !.sha1 = resp]
  /\ expected_hash' = RemoteHashOrNull(resp)
  /\ IF ChecksummedUsesLocal(RemoteHashOrNull(resp), target_file)
       THEN DownloadReturns("Ok")
       ELSE /\ dl_pc' = "request"
            /\ UNCHANGED dl_result
  /\ UNCHANGED nonDlVars
  /\ UNCHANGED <<strategy, asset, compressed_target, target_file, parent_dir, dl_attempts,
                 requests, before>>

\* download from the answer of url to its return.
UrlResponse(resp) ==
  /\ dl_pc = "request"
  /\ strategy \in {"prehashed", "checksummed"}
  /\ requests' = requests + 1
  /\ responses' = [responses EXCEPT !.url = resp]
  /\ IF resp = "error"
       THEN /\ DownloadReturns("Err(Request)")
            /\ UNCHANGED target_file
       ELSE /\ target_file' = resp
            /\ IF strategy = "prehashed"
                 THEN DownloadReturns(IF FileSha1(resp) # PreHash
                                        THEN "Err(ChecksumMismatch)" ELSE "Ok")
                 ELSE DownloadReturns(IF DownloadedAccepted(expected_hash, resp)
                                        THEN "Ok" ELSE "Err(ChecksumMismatch)")
  /\ UNCHANGED nonDlVars
  /\ UNCHANGED <<strategy, asset, compressed_target, parent_dir, dl_attempts, expected_hash,
                 sha1_requests, before>>

\* EtagDownloadable::download from the answer of url to its return: the bytes are
\* written, then the ETag decides.
EtagResponse(resp, header) ==
  /\ dl_pc = "request"
  /\ strategy = "etag"
  /\ requests' = requests + 1
  /\ IF resp = "error"
       THEN /\ responses' = [responses EXCEPT !.url = resp]
            /\ DownloadReturns("Err(Request)")
            /\ UNCHANGED target_file
       ELSE /\ responses' = [responses EXCEPT !.url = resp, !.etag = header]
            /\ target_file' = resp
            /\ DownloadReturns(IF ContainsDash(GetEtag(header)) THEN "Ok"
                               ELSE IF EtagMatches(GetEtag(header), resp) THEN "Ok"
                               ELSE "Err(EtagMismatch)")
  /\ UNCHANGED nonDlVars
  /\ UNCHANGED <<strategy, asset, compressed_target, parent_dir, dl_attempts, expected_hash,
                 sha1_requests, before>>

\* What the asset's request can answer: an error, or a body (a compressed copy when
\* the compressed url is asked).
AssetResponses ==
  {"error"} \cup (IF HasCompressedAlternative(asset) THEN Compressed ELSE AssetContents)

\* AssetDownloadable::download from the answer of its request to its return.
AssetResponse(resp) ==
  /\ dl_pc = "request"
  /\ strategy = "asset"
  /\ requests' = requests + 1
  /\ responses' = [responses EXCEPT !.url = resp]
  /\ IF resp = "error"
       THEN /\ DownloadReturns("Err(Request)")
            /\ UNCHANGED <<target_file, compressed_target>>
       ELSE IF HasCompressedAlternative(asset)
         THEN IF CompressedSha1(resp) = asset.compressed_hash
                THEN /\ compressed_target' = resp
                     /\ DecompressAsset(resp)
                ELSE /\ compressed_target' = "absent"
                     /\ DownloadReturns("Err(ChecksumMismatch)")
                     /\ UNCHANGED target_file
         ELSE /\ UNCHANGED compressed_target
              /\ IF FileSha1(resp) = asset.hash
                   THEN /\ target_file' = resp
                        /\ DownloadReturns("Ok")
                   ELSE /\ target_file' = "absent"
                        /\ DownloadReturns("Err(ChecksumMismatch)")
  /\ UNCHANGED nonDlVars
  /\ UNCHANGED <<strategy, asset, parent_dir, dl_attempts, expected_hash, sha1_requests, before>>

\* ---------------------------------------------------- downloadables: claims

\* C17: a pre-hashed download that finds a local file with the expected checksum
\* returns Ok, sends no request and leaves the file as it was; the attempt is counted.
C17_LocalMatchNoRequest ==
  (dl_pc = "returned" /\ strategy = "prehashed" /\ before.file # "absent"
     /\ FileSha1(before.file) = PreHash) =>
    /\ dl_result = "Ok"
    /\ requests = before.requests
    /\ sha1_requests = 0
    /\ target_file = before.file
    /\ dl_attempts = before.attempts + 1

C17_Witness ==
  /\ dl_pc = "returned"
  /\ strategy = "prehashed"
  /\ before.file = "good"
  /\ dl_result = "Ok"
  /\ requests = before.requests
  /\ dl_attempts = before.attempts + 1

\* C18: a checksummed download with no local file whose url.sha1 request fails or
\* answers unusable text still requests url, and returns Ok when that request succeeds.
C18_SidecarFailureTolerated ==
  (dl_pc = "returned" /\ strategy = "checksummed" /\ before.file = "absent"
     /\ responses.sha1 \in {"unreachable", "unusable"}) =>
    /\ requests = before.requests + 1
    /\ responses.url # "error" => dl_result = "Ok" /\ target_file = responses.url

C18_Witness ==
  /\ dl_pc = "returned"
  /\ strategy = "checksummed"
  /\ before.file = "absent"
  /\ responses.sha1 = "unreachable"
  /\ responses.url \in Contents
  /\ dl_result = "Ok"

\* C31: a checksummed download with an unknown remote checksum and a local file, or
\* with a known remote checksum equal to the local file's, returns Ok without
\* requesting url and leaves the file as it was; in every other case url is requested.
C31_LocalCopyOrRequest ==
  (dl_pc = "returned" /\ strategy = "checksummed" /\ expected_hash # "unset") =>
    IF \/ expected_hash = NULL_SHA1 /\ before.file # "absent"
       \/ expected_hash # NULL_SHA1 /\ before.file # "absent"
            /\ expected_hash = FileSha1(before.file)
      THEN /\ dl_result = "Ok"
           /\ requests = before.requests
           /\ target_file = before.file
      ELSE requests = before.requests + 1

\* An unknown remote checksum and a local file that is not the published artifact.
C31_Witness ==
  /\ dl_pc = "returned"
  /\ strategy = "checksummed"
  /\ expected_hash = NULL_SHA1
  /\ responses.sha1 = "unusable"
  /\ before.file = "other"
  /\ dl_result = "Ok"
  /\ requests = before.requests
  /\ target_file = "other"

\* A known remote checksum that differs from the local file's: url is requested.
C31_WitnessRequested ==
  /\ dl_pc = "returned"
  /\ strategy = "checksummed"
  /\ expected_hash = FileSha1("good")
  /\ before.file = "other"
  /\ requests = before.requests + 1

\* The attempt that has just returned failed on a checksum or ETag mismatch.
Mismatch == dl_pc = "returned" /\ dl_result \in {"Err(ChecksumMismatch)", "Err(EtagMismatch)"}

\* C27: a pre-hashed, checksummed or ETag attempt that ends in a mismatch returns an
\* error and leaves none of the rejected bytes at the target path.
C27_NoRejectedContent ==
  (Mismatch /\ strategy \in {"prehashed", "checksummed", "etag"}) => target_file = "absent"

\* What these three strategies do instead: the rejected bytes stay at the target.
C27_RejectedContentStays ==
  (Mismatch /\ strategy \in {"prehashed", "checksummed", "etag"}) => target_file = responses.url

\* C28: an asset attempt that fails on a checksum mismatch (compressed copy, unpacked
\* content or raw object) leaves no target file; a target file is there after an
\* attempt only if the attempt returned Ok.
C28_AssetTargetOnlyOnSuccess ==
  (dl_pc = "returned" /\ strategy = "asset") =>
    /\ dl_result = "Err(ChecksumMismatch)" => target_file = "absent"
    /\ target_file # "absent" => dl_result = "Ok"

\* A raw object of the published length and the wrong checksum was written and removed.
C28_Witness ==
  /\ dl_pc = "returned"
  /\ strategy = "asset"
  /\ ~HasCompressedAlternative(asset)
  /\ responses.url = "same_size"
  /\ dl_result = "Err(ChecksumMismatch)"
  /\ target_file = "absent"

\* A compressed copy with the right hash unpacked to the wrong content.
C28_WitnessUnpacked ==
  /\ dl_pc = "returned"
  /\ strategy = "asset"
  /\ responses.url \in Compressed
  /\ compressed_target = responses.url
  /\ dl_result = "Err(ChecksumMismatch)"
  /\ target_file = "absent"

\* C32: an asset download that finds a target of the size the index names returns Ok
\* without a request and leaves target and compressed copy as they were, whatever the
\* target holds; a target of another size is gone when the request is about to be sent
\* and is never what the attempt leaves.
C32_SizeAlone ==
  (strategy = "asset" /\ dl_attempts > 0 /\ before.file # "absent") =>
    IF FileLen(before.file) = asset.size
      THEN /\ dl_pc = "returned"
           /\ dl_result = "Ok"
           /\ requests = before.requests
           /\ target_file = before.file
           /\ compressed_target = before.compressed
      ELSE /\ dl_pc = "request" => target_file = "absent"
           /\ target_file # before.file

\* A target of the published length with other content was accepted.
C32_Witness ==
  /\ strategy = "asset"
  /\ dl_pc = "returned"
  /\ before.file = "same_size"
  /\ FileSha1(before.file) # asset.hash
  /\ dl_result = "Ok"
  /\ requests = 0
  /\ target_file = "same_size"

\* A target of another size was removed before the compressed copy was fetched.
C32_WitnessRemoved ==
  /\ strategy = "asset"
  /\ dl_pc = "request"
  /\ before.file = "other"
  /\ HasCompressedAlternative(asset)
  /\ target_file = "absent"

\* C29: the attempt after one that failed on a mismatch sends a request again, whatever
\* the failed attempt left on disk.
C29_RetryFetchesAgain ==
  (dl_pc = "returned" /\ before.result \in {"Err(ChecksumMismatch)", "Err(EtagMismatch)"}) =>
    requests + sha1_requests > before.requests + before.sha1_requests

\* C29 with the sidecar request not counted: the retry asks for the artifact again.
C29_RetryRequestsArtifact ==
  (dl_pc = "returned" /\ before.result \in {"Err(ChecksumMismatch)", "Err(EtagMismatch)"}) =>
    requests > before.requests

\* C29 for the strategies other than Asset.
C29_RetryFetchesAgainExceptAsset ==
  strategy # "asset" => C29_RetryFetchesAgain

\* C30: an ETag download sends the request whenever it gets as far as that, and with
\* a quote-stripped ETag without '-' it returns Ok exactly when the ETag is the hex
\* MD5 of the downloaded bytes.
C30_EtagIsHexMd5 ==
  (dl_pc = "returned" /\ strategy = "etag" /\ dl_result # "Err(Io)") =>
    /\ requests = before.requests + 1
    /\ (responses.url # "error" /\ ~ContainsDash(GetEtag(responses.etag))) =>
         (dl_result = "Ok" <=> GetEtag(responses.etag) = Hex(Md5(responses.url)))

\* What the code compares the ETag with: the digest bytes, not their hex form.
C30_EtagIsRawMd5 ==
  (dl_pc = "returned" /\ strategy = "etag" /\ dl_result # "Err(Io)") =>
    /\ requests = before.requests + 1
    /\ (responses.url # "error" /\ ~ContainsDash(GetEtag(responses.etag))) =>
         (dl_result = "Ok" <=> GetEtag(responses.etag) = Md5(responses.url))

\* --------------------------------------------------------------- asset tasks
AssetNames == 1..MaxAssets

NoObject == [hash |-> "none", size |-> 0]

\* The AssetObjects an index entry may hold (hash and size; the other fields of
\* AssetObject take part in its equality in the same way as size).
AssetObjects == [hash : {"h1", "h2"}, size : {1, 2}]

\* The entries of the asset index.
Entries == {n \in AssetNames : objects[n] # NoObject}

InitAssets ==
  /\ objects \in [AssetNames -> AssetObjects \cup {NoObject}]
  /\ unique_objects = {}
  /\ downloadables = <<>>
  /\ apc = "idle"

\* No task construction: the state of these variables while another component is examined.
IdleAssets ==
  /\ objects = <<>>
  /\ unique_objects = {}
  /\ downloadables = <<>>
  /\ apc = "off"

\* AssetIndex::get_unique_objects: the entries collected into a map keyed by the whole
\* AssetObject; of several names with an equal object, the one iterated last stays.
GetUniqueObjects ==
  /\ apc = "idle"
  /\ \E keep \in [{objects[n] : n \in Entries} -> AssetNames] :
       /\ \A o \in DOMAIN keep : objects[keep[o]] = o
       /\ unique_objects' = {<<o, keep[o]>> : o \in DOMAIN keep}
  /\ apc' = "loop"
  /\ UNCHANGED nonAssetVars
  /\ UNCHANGED <<objects, downloadables>>

\* One iteration of `for (asset_object, asset_name) in asset_index.get_unique_objects()`.
PushDownloadable ==
  /\ apc = "loop"
  /\ \E pair \in unique_objects :
       /\ \A i \in DOMAIN downloadables : downloadables[i] # <<pair[2], pair[1]>>
       /\ downloadables' = Append(downloadables, <<pair[2], pair[1]>>)
  /\ UNCHANGED nonAssetVars
  /\ UNCHANGED <<objects, unique_objects, apc>>

\* The loop is over: Ok(downloadables).
ReturnDownloadables ==
  /\ apc = "loop"
  /\ Len(downloadables) = Cardinality(unique_objects)
  /\ apc' = "done"
  /\ UNCHANGED nonAssetVars
  /\ UNCHANGED <<objects, unique_objects, downloadables>>

\* ------------------------------------------------------ asset tasks: claims

\* C19: the asset tasks are one per distinct checksum of the asset index, whatever the
\* other fields of the entries with that checksum are.
C19_OneTaskPerChecksum ==
  apc = "done" =>
    /\ Len(downloadables) = Cardinality({objects[n].hash : n \in Entries})
    /\ \A i, j \in DOMAIN downloadables :
         i # j => downloadables[i][2].hash # downloadables[j][2].hash

\* C19 for entries that are equal in every field: one task per distinct AssetObject.
C19_OneTaskPerObject ==
  apc = "done" =>
    /\ Len(downloadables) = Cardinality({objects[n] : n \in Entries})
    /\ \A i, j \in DOMAIN downloadables : i # j => downloadables[i][2] # downloadables[j][2]

\* ------------------------------------------------------- version identifiers
\* Strings are sequences of characters; the three literals of the pre-release and
\* release-candidate shapes are written as one character each.
Digits == {"0", "1"}

PreNewMark == " Pre-Release "
PreOldMark == "-pre"
RcMark == "-rc"

\* The characters a regex `.` and `\d` range over here.
Chars == Digits \cup {".", "w"}

RECURSIVE Strings(_, _)
\* The strings over alphabet of length 1..n.
Strings(alphabet, n) ==
  IF n = 0 THEN {}
  ELSE {<<c>> : c \in alphabet} \cup
       {Append(t, c) : t \in Strings(alphabet, n - 1), c \in alphabet}

\* `\d+`
IsNumber(t) == t # <<>> /\ \A i \in DOMAIN t : t[i] \in Digits

RECURSIVE ParseInt(_)
\* str::parse::<i32> of a string of digits
ParseInt(t) ==
  IF t = <<>> THEN 0
  ELSE 10 * ParseInt(SubSeq(t, 1, Len(t) - 1)) + (IF t[Len(t)] = "1" THEN 1 ELSE 0)

DecimalDigits == <<"0", "1", "2", "3", "4", "5", "6", "7", "8", "9">>

RECURSIVE FormatInt(_)
\* format!("{n}")
FormatInt(n) ==
  IF n < 10 THEN <<DecimalDigits[n + 1]>>
  ELSE FormatInt(n \div 10) \o <<DecimalDigits[(n % 10) + 1]>>

\* format!("{n:02}")
FormatInt02(n) == IF n < 10 THEN <<"0">> \o FormatInt(n) ELSE FormatInt(n)

\* The positions of character c in t.
Positions(t, c) == {i \in DOMAIN t : t[i] = c}

\* `^(?P<major>\d+)\.(?P<minor>\d+)(?:\.(?P<patch>\d+))?$`: the matches of t, as the
\* positions of its dots.
CoreMatches(t) ==
  {d \in SUBSET Positions(t, ".") :
     /\ Cardinality(d) \in {1, 2}
     /\ d = Positions(t, ".")
     /\ \A i \in DOMAIN t : i \notin d => t[i] \in Digits
     /\ 1 \notin d /\ Len(t) \notin d
     /\ \A i \in d : i + 1 \notin d}

NoPatch == -1

\* The captures major, minor, patch of a string that matches the pattern above.
Core(t) ==
  LET d == CHOOSE x \in CoreMatches(t) : TRUE
      d1 == CHOOSE i \in d : \A j \in d : i <= j
      d2 == CHOOSE i \in d : \A j \in d : j <= i
  IN [major |-> ParseInt(SubSeq(t, 1, d1 - 1)),
      minor |-> ParseInt(SubSeq(t, d1 + 1, IF d1 = d2 THEN Len(t) ELSE d2 - 1)),
      patch |-> IF d1 = d2 THEN NoPatch ELSE ParseInt(SubSeq(t, d2 + 1, Len(t)))]

\* A string `core mark number` with the one-character literal mark.
MarkMatches(t, mark) ==
  /\ Cardinality(Positions(t, mark)) = 1
  /\ LET i == CHOOSE j \in Positions(t, mark) : TRUE
     IN /\ CoreMatches(SubSeq(t, 1, i - 1)) # {}
        /\ IsNumber(SubSeq(t, i + 1, Len(t)))

\* The MCVersion of a string that matches `core mark number`.
Marked(kind, t, mark) ==
  LET i == CHOOSE j \in Positions(t, mark) : TRUE
  IN [kind |-> kind, core |-> Core(SubSeq(t, 1, i - 1)),
      n |-> ParseInt(SubSeq(t, i + 1, Len(t))), text |-> <<>>]

\* `^(?P<year>\d{2})w(?P<week>\d{2})(?P<revision>.)$`
SnapshotMatches(t) ==
  /\ Len(t) = 6
  /\ \A i \in {1, 2, 4, 5} : t[i] \in Digits
  /\ t[3] = "w"
  /\ t[6] \in Chars

NoCore == [major |-> 0, minor |-> 0, patch |-> NoPatch]

\* impl From<String> for MCVersion
From(t) ==
  IF CoreMatches(t) # {}
    THEN [kind |-> "Release", core |-> Core(t), n |-> 0, text |-> <<>>]
  ELSE IF SnapshotMatches(t)
    THEN [kind |-> "Snapshot",
          core |-> [major |-> ParseInt(SubSeq(t, 1, 2)), minor |-> ParseInt(SubSeq(t, 4, 5)),
                    patch |-> NoPatch],
          n |-> 0, text |-> <<t[6]>>]
  ELSE IF MarkMatches(t, PreNewMark) THEN Marked("PreReleaseNew", t, PreNewMark)
  ELSE IF MarkMatches(t, PreOldMark) THEN Marked("PreReleaseOld", t, PreOldMark)
  ELSE IF MarkMatches(t, RcMark) THEN Marked("ReleaseCandidate", t, RcMark)
  ELSE [kind |-> "Other", core |-> NoCore, n |-> 0, text |-> t]

\* format!("{major}.{minor}") with ".{patch}" pushed when there is a patch
CoreToString(core) ==
  FormatInt(core.major) \o <<".">> \o FormatInt(core.minor) \o
    (IF core.patch = NoPatch THEN <<>> ELSE <<".">> \o FormatInt(core.patch))

\* impl ToString for MCVersion
to_string(v) ==
  CASE v.kind = "Release" -> CoreToString(v.core)
    [] v.kind = "Snapshot" ->
         FormatInt02(v.core.major) \o <<"w">> \o FormatInt02(v.core.minor) \o v.text
    [] v.kind = "PreReleaseNew" -> CoreToString(v.core) \o <<PreNewMark>> \o FormatInt(v.n)
    [] v.kind = "PreReleaseOld" -> CoreToString(v.core) \o <<PreOldMark>> \o FormatInt(v.n)
    [] v.kind = "ReleaseCandidate" -> CoreToString(v.core) \o <<RcMark>> \o FormatInt(v.n)
    [] OTHER -> v.text

\* The numbers written with 1..MaxDigits digits.
Numbers == Strings(Digits, MaxDigits)

\* The strings `a.b` and `a.b.c`.
CoreStrings ==
  {a \o <<".">> \o b : a \in Numbers, b \in Numbers} \cup
  {a \o <<".">> \o b \o <<".">> \o c : a \in Numbers, b \in Numbers, c \in Numbers}

\* The identifier strings examined: every string of the five numbered shapes with
\* numbers of up to MaxDigits digits, and every string of up to MaxOther characters.
Identifiers ==
  CoreStrings \cup
  {t \o <<m>> \o n : t \in CoreStrings, m \in {PreNewMark, PreOldMark, RcMark}, n \in Numbers} \cup
  {<<y1, y2, "w", w1, w2, r>> : y1 \in Digits, y2 \in Digits, w1 \in Digits, w2 \in Digits,
                                r \in Chars} \cup
  Strings(Chars \cup {PreOldMark}, MaxOther)

InitId ==
  /\ id_value \in Identifiers
  /\ version = From(<<>>)
  /\ formatted = <<>>
  /\ vpc = "idle"

\* No identifier: the state of these variables while another component is examined.
IdleId ==
  /\ id_value = <<>>
  /\ version = From(<<>>)
  /\ formatted = <<>>
  /\ vpc = "off"

\* MCVersion::from(value)
ParseVersion ==
  /\ vpc = "idle"
  /\ version' = From(id_value)
  /\ vpc' = "parsed"
  /\ UNCHANGED nonIdVars
  /\ UNCHANGED <<id_value, formatted>>

\* version.to_string()
FormatVersion ==
  /\ vpc = "parsed"
  /\ formatted' = to_string(version)
  /\ vpc' = "formatted"
  /\ UNCHANGED nonIdVars
  /\ UNCHANGED <<id_value, version>>

\* ----------------------------------------------- version identifiers: claims

\* A number of the string is written with a leading zero.
HasLeadingZero(t) ==
  \E i \in DOMAIN t :
    /\ t[i] = "0"
    /\ i = 1 \/ t[i - 1] \notin Digits
    /\ i < Len(t) /\ t[i + 1] \in Digits

\* C20: formatting the MCVersion parsed from an identifier string gives the string
\* back, for all six shapes, also when numbers are written with leading zeros.
C20_RoundTrip == vpc = "formatted" => formatted = id_value

\* C20 for the strings it holds for: snapshots, Other, and numbers without leading zeros.
C20_RoundTripCanonical ==
  (vpc = "formatted" /\ (version.kind \in {"Snapshot", "Other"} \/ ~HasLeadingZero(id_value))) =>
    formatted = id_value

\* C22: when every download attempt returns, start returns, for every task set,
\* concurrency >= 1 and attempt budget.
C22_StartReturns == <>(jpc = "done")

\* C22: a job that has returned stays returned, and no file is attempted by then.
C22_ReturnedIsFinal == jpc = "done" => InFlight = {}

C22_Witness ==
  /\ jpc = "done"
  /\ concurrent_downloads > 1
  /\ \E f \in all_files : attempts[f] > 1 /\ succeeded_at[f] = 0

\* ----------------------------------------------------- download_version
\* Both jobs are built with ignore_failures(false) and the caller's concurrency and
\* attempt budget; the jobs run one after the other in the job variables.

\* A file of either job succeeds at its first attempt or fails at every attempt.
Outcomes == {0, MaxAttempts + 1}

NoJob == [open |-> {}, result |-> "None"]

\* The job variables of a job with files 1..n that has been built and not started.
BuiltJob(n, ff, pc) ==
  /\ all_files = 1..n
  /\ fail_first = ff
  /\ attempts = [f \in 1..n |-> 0]
  /\ succeeded_at = [f \in 1..n |-> 0]
  /\ start_time = [f \in 1..n |-> "None"]
  /\ end_time = [f \in 1..n |-> "None"]
  /\ sink = "None"
  /\ jpc = pc
  /\ job_result = "None"
  /\ failure_count = 0
  /\ next_idx = 1
  /\ buffer = {}
  /\ loop_idx = [f \in 1..n |-> 0]
  /\ results = [f \in 1..n |-> "None"]
  /\ remaining_files = IF impl = "pool" THEN SeqOfRange(1, n) ELSE <<>>
  /\ failures = <<>>
  /\ wpc = [w \in Workers |-> "idle"]
  /\ held = [w \in Workers |-> 0]

\* download_version / download_required_files with both jobs built.
InitSeq ==
  /\ impl \in {"stream", "pool"}
  /\ ignore_failures = FALSE
  /\ max_download_attempts \in 0..MaxAttempts
  /\ concurrent_downloads \in 1..MaxPool
  /\ \E n \in 1..MaxTasks : \E ff \in [1..n -> Outcomes] : BuiltJob(n, ff, "built")
  /\ \E n \in 1..MaxTasks : assets_job \in [fail_first : [1..n -> Outcomes]]
  /\ version_job = NoJob
  /\ resources_started = FALSE
  /\ dv_pc = "built"
  /\ dv_result = "None"

\* No download_version call: the state of these variables while another component is examined.
IdleSeq ==
  /\ dv_pc = "off"
  /\ dv_result = "None"
  /\ assets_job = [fail_first |-> <<>>]
  /\ version_job = NoJob
  /\ resources_started = FALSE

\* The files of the running job that are pending or in flight.
OpenFiles == {f \in all_files : PendingCount(f) + HolderCount(f) > 0}

\* A caller that goes on without awaiting start.
MutStartNotAwaited == IF jpc = "done" THEN job_result ELSE "Ok"

\* What `job.start().await` has yielded ("None" while start is running).
StartAwaited == IF jpc = "done" THEN job_result ELSE "None"

\* version_job.start() is called.
StartVersionJob ==
  /\ dv_pc = "built"
  /\ jpc = "built"
  /\ jpc' = "ready"
  /\ dv_pc' = "version_job"
  /\ UNCHANGED nonSeqVars
  /\ UNCHANGED <<dv_result, assets_job, version_job, resources_started>>
  /\ UNCHANGED <<impl, all_files, fail_first, ignore_failures, max_download_attempts,
                 concurrent_downloads, attempts, succeeded_at, start_time, end_time, sink,
                 job_result, failure_count, next_idx, buffer, loop_idx, results,
                 remaining_files, failures, wpc, held>>

\* `version_job.start().await?` yielded Ok: assets_job.start() is called.
StartResourcesJob ==
  /\ dv_pc = "version_job"
  /\ StartAwaited = "Ok"
  /\ version_job' = [open |-> OpenFiles, result |-> StartAwaited]
  /\ resources_started' = TRUE
  /\ dv_pc' = "resources_job"
  /\ LET n == Len(assets_job.fail_first)
     IN /\ all_files' = 1..n
        /\ fail_first' = assets_job.fail_first
        /\ attempts' = [f \in 1..n |-> 0]
        /\ succeeded_at' = [f \in 1..n |-> 0]
        /\ start_time' = [f \in 1..n |-> "None"]
        /\ end_time' = [f \in 1..n |-> "None"]
        /\ loop_idx' = [f \in 1..n |-> 0]
        /\ results' = [f \in 1..n |-> "None"]
        /\ remaining_files' = IF impl = "pool" THEN SeqOfRange(1, n) ELSE <<>>
  /\ sink' = "None"
  /\ jpc' = "ready"
  /\ job_result' = "None"
  /\ failure_count' = 0
  /\ next_idx' = 1
  /\ buffer' = {}
  /\ failures' = <<>>
  /\ wpc' = [w \in Workers |-> "idle"]
  /\ held' = [w \in Workers |-> 0]
  /\ UNCHANGED nonSeqVars
  /\ UNCHANGED <<impl, ignore_failures, max_download_attempts, concurrent_downloads,
                 dv_result, assets_job>>

\* `?` on an Err of either start, or Ok(()) after the Resources job.
DownloadVersionReturns ==
  /\ \/ dv_pc = "version_job" /\ StartAwaited = "Err"
     \/ dv_pc = "resources_job" /\ StartAwaited # "None"
  /\ dv_result' = StartAwaited
  /\ version_job' = IF dv_pc = "version_job"
                      THEN [open |-> OpenFiles, result |-> StartAwaited]
                      ELSE version_job
  /\ dv_pc' = "returned"
  /\ UNCHANGED nonSeqVars
  /\ UNCHANGED jobVars
  /\ UNCHANGED <<assets_job, resources_started>>

\* ---------------------------------------------- download_version: claims

\* C21: the Resources job starts only after the Version & Libraries job returned Ok
\* with none of its files pending or in flight; when that job fails, the Resources
\* job is never started and download_version returns the error.
C21_JobsInSequence ==
  /\ resources_started => (version_job.result = "Ok" /\ version_job.open = {})
  /\ (dv_pc = "returned" /\ version_job.result = "Err") =>
       (dv_result = "Err" /\ ~resources_started)
  /\ (dv_pc = "version_job" /\ StartAwaited = "Err") => ~resources_started

C21_Witness ==
  /\ dv_pc = "resources_job"
  /\ \E f \in all_files : attempts[f] > 0
  /\ version_job.result = "Ok"

C21_WitnessFailure ==
  /\ dv_pc = "returned"
  /\ version_job.result = "Err"
  /\ dv_result = "Err"

\* C39: the cache of installed versions holds each identifier at most once, also
\* after a version that is installed was installed again.
C39_CacheHasNoDuplicates ==
  \A i, j \in DOMAIN local_cache : i # j => local_cache[i] # local_cache[j]

\* Without an install the cache stays free of duplicates.
C39_NoDuplicatesWithoutInstall == installs = 0 => C39_CacheHasNoDuplicates

\* ------------------------------------------------- one task of the stream job
\* download() of version_manager/downloader/download_job.rs with an EtagDownloadable,
\* its attempts told apart by the error they return.

\* What the server answers to the task's request: no answer, a body whose ETag
\* is accepted, a body whose ETag is not.
TaskResponses == {"error", "accepted", "rejected"}

\* Downloadable::ensure_file_writable on a parent directory.
EnsureFileWritable(dir) == IF dir = "blocked" THEN "Err(PrepareFolder)" ELSE "Ok"

\* EtagDownloadable::download: what one attempt returns.
EtagDownload(dir, resp) ==
  IF EnsureFileWritable(dir) # "Ok" THEN EnsureFileWritable(dir)
  ELSE IF resp = "error" THEN "Err(Download)"
  ELSE IF resp = "accepted" THEN "Ok"
  ELSE "Err(Other)"

\* `for attempt in 0..retries`: the loop body runs once more.
TaskLoopRuns(idx) == idx < retries

\* `match last_error { Some(err) => Err(err), None => Ok(downloadable) }`
TaskGaveUpResult(err) == IF err = "None" THEN "Ok" ELSE err

InitTask ==
  /\ retries \in 0..MaxRetries
  /\ folder \in {"exists", "creatable", "blocked"}
  /\ attempt = 0
  /\ last_error = "None"
  /\ download_result = <<>>
  /\ task_result = "None"
  /\ tpc = "ready"

\* No task: the state of these variables while another component is examined.
IdleTask ==
  /\ retries = 0
  /\ folder = "exists"
  /\ attempt = 0
  /\ last_error = "None"
  /\ download_result = <<>>
  /\ task_result = "None"
  /\ tpc = "off"

\* download is polled for the first time and reaches its loop.
CallDownload ==
  /\ tpc = "ready"
  /\ tpc' = "loop"
  /\ UNCHANGED nonTaskVars
  /\ UNCHANGED <<retries, folder, attempt, last_error, download_result, task_result>>

\* One iteration of the loop: an attempt, and what the loop makes of its result.
TaskAttempt(resp) ==
  /\ tpc = "loop"
  /\ TaskLoopRuns(attempt)
  /\ LET r == EtagDownload(folder, resp)
     IN /\ download_result' = Append(download_result, r)
        /\ folder' = IF EnsureFileWritable(folder) = "Ok" THEN "exists" ELSE folder
        /\ IF r = "Ok"
             THEN /\ task_result' = "Ok"
                  /\ tpc' = "returned"
                  /\ UNCHANGED <<attempt, last_error>>
             ELSE /\ last_error' = r
                  /\ attempt' = attempt + 1
                  /\ UNCHANGED <<task_result, tpc>>
  /\ UNCHANGED nonTaskVars
  /\ UNCHANGED retries

\* The loop is over without a success.
TaskGiveUp ==
  /\ tpc = "loop"
  /\ ~TaskLoopRuns(attempt)
  /\ task_result' = TaskGaveUpResult(last_error)
  /\ tpc' = "returned"
  /\ UNCHANGED nonTaskVars
  /\ UNCHANGED <<retries, folder, attempt, last_error, download_result>>

\* ---- one task: claims

\* C33: a folder-preparation error ends the task: no attempt follows an attempt
\* that returned it, even when attempts remain.
C33_FolderErrorAborts ==
  \A i \in 1..Len(download_result) :
    download_result[i] = "Err(PrepareFolder)" => i = Len(download_result)

\* A folder that cannot be made is reported as the folder-preparation error, by the
\* attempt and by the task.
C33_FolderErrorDistinct ==
  /\ \A i \in 1..Len(download_result) :
       download_result[i] = "Err(PrepareFolder)" <=> folder = "blocked"
  /\ (tpc = "returned" /\ folder = "blocked" /\ retries > 0) =>
       task_result = "Err(PrepareFolder)"

\* What the loop does: every allowed attempt is made, whatever the errors were.
C33_EveryAttemptMade ==
  (tpc = "returned" /\ task_result # "Ok") => Len(download_result) = retries

\* A task whose folder cannot be made was attempted retries times.
C33_WitnessRetried ==
  /\ tpc = "returned"
  /\ folder = "blocked"
  /\ retries = MaxRetries
  /\ Len(download_result) = retries
  /\ task_result = "Err(PrepareFolder)"

\* ---------------------------------------- tasks of the "Version & Libraries" job
\* get_library_downloadables and get_jar_downloadable (version_manager/downloader/utils.rs),
\* added to one job by download_version.

\* Artifact coordinates: group:name:version, and the classifier the name may carry.
Artifacts == [coordinate : {"a:a:1", "b:b:1"}, classifier : {"none", "sources"}]

\* The natives map of a library: empty, or a classifier for linux alone.
NativesMaps == {"empty", "linux"}

\* Library: name, whether its rules apply, natives, and where it is downloaded from
\* ("none": url or the default server; "artifact": downloads.artifact alone;
\* "classifiers": downloads with an entry for every native classifier).
Libraries ==
  [name : Artifacts, applies : BOOLEAN, natives : NativesMaps,
   downloads : {"none", "artifact", "classifiers"}]

\* Artifact::get_local_path(libraries_dir):
\* <gameDir>/libraries/<group-path>/<artifact>-<version>[-<classifier>].jar
GetLocalPath(artifact) == <<"libraries", artifact.coordinate, artifact.classifier>>

\* Library::get_artifact_classifier: "skip" is None, "none" is Some(None).
GetArtifactClassifier(lib, platform) ==
  IF lib.natives = "empty" THEN "none"
  ELSE IF platform = "linux" THEN "natives-linux"
  ELSE "skip"

\* Library::get_download_info: is there a DownloadInfo for the classifier?
HasDownloadInfo(lib, classifier) ==
  \/ classifier = "none" /\ lib.downloads \in {"artifact", "classifiers"}
  \/ classifier \notin {"none", "skip"} /\ lib.downloads = "classifiers"

\* create_lib_downloadable: the target files of the tasks made for one library
\* (none or one).
CreateLibDownloadable(lib, platform) ==
  IF GetArtifactClassifier(lib, platform) = "skip" THEN <<>>
  ELSE IF lib.downloads = "none" THEN <<GetLocalPath(lib.name)>>
  ELSE IF HasDownloadInfo(lib, GetArtifactClassifier(lib, platform))
    THEN <<GetLocalPath(lib.name)>>
  ELSE <<>>

\* get_jar_downloadable: versions/<id>/<id>.jar
JarPath == <<"versions", "id", "jar">>

RECURSIVE SelectApplies(_)
\* VersionManifest::get_relevant_libraries
SelectApplies(libs) ==
  IF libs = <<>> THEN <<>>
  ELSE (IF Head(libs).applies THEN <<Head(libs)>> ELSE <<>>) \o SelectApplies(Tail(libs))

RECURSIVE SeqsUpTo(_, _)
\* The sequences over S of length up to n.
SeqsUpTo(S, n) ==
  IF n = 0 THEN {<<>>}
  ELSE SeqsUpTo(S, n - 1) \cup {Append(q, x) : q \in SeqsUpTo(S, n - 1), x \in S}

InitLibs ==
  /\ libraries \in SeqsUpTo(Libraries, MaxLibs)
  /\ lib_os \in {"linux", "windows"}
  /\ relevant = <<>>
  /\ lib_idx = 0
  /\ job_files = <<>>
  /\ lpc = "idle"

\* No task list: the state of these variables while another component is examined.
IdleLibs ==
  /\ libraries = <<>>
  /\ lib_os = "linux"
  /\ relevant = <<>>
  /\ lib_idx = 0
  /\ job_files = <<>>
  /\ lpc = "off"

\* get_library_downloadables up to its flat_map.
GetRelevantLibraries ==
  /\ lpc = "idle"
  /\ relevant' = SelectApplies(libraries)
  /\ lpc' = "libraries"
  /\ UNCHANGED nonLibVars
  /\ UNCHANGED <<libraries, lib_os, lib_idx, job_files>>

\* One library through flat_map(create_lib_downloadable); after the last one the
\* list is collected and added to the job.
FlatMapLibrary ==
  /\ lpc = "libraries"
  /\ IF lib_idx < Len(relevant)
       THEN /\ job_files' = job_files \o CreateLibDownloadable(relevant[lib_idx + 1], lib_os)
            /\ lib_idx' = lib_idx + 1
            /\ UNCHANGED lpc
       ELSE /\ lpc' = "jar"
            /\ UNCHANGED <<job_files, lib_idx>>
  /\ UNCHANGED nonLibVars
  /\ UNCHANGED <<libraries, lib_os, relevant>>

\* add_downloadables(vec![get_jar_downloadable(..)]): the job is built.
AddJarDownloadable ==
  /\ lpc = "jar"
  /\ job_files' = Append(job_files, JarPath)
  /\ lpc' = "built"
  /\ UNCHANGED nonLibVars
  /\ UNCHANGED <<libraries, lib_os, relevant, lib_idx>>

\* ---- tasks of the job: claims

\* C34: no two tasks of the job have the same destination path, whatever libraries
\* the resolved manifest lists.
C34_DistinctDestinations ==
  \A i, j \in DOMAIN job_files : i # j => job_files[i] # job_files[j]

\* A library makes at most one task, and the jar's path is no library's.
C34_JarAndEachLibraryOnce ==
  /\ Len(job_files) <= Len(relevant) + 1
  /\ \A i \in DOMAIN job_files :
       (job_files[i] = JarPath) <=> (lpc = "built" /\ i = Len(job_files))

\* Without two libraries of one name among those that make a task, the paths differ.
C34_DistinctUnlessSameName ==
  (\A i, j \in DOMAIN relevant :
     (i # j /\ CreateLibDownloadable(relevant[i], lib_os) # <<>>
            /\ CreateLibDownloadable(relevant[j], lib_os) # <<>>)
       => relevant[i].name # relevant[j].name)
    => C34_DistinctDestinations

\* The job was built from a library listed twice, by the child and by its parent.
C34_WitnessListedTwice ==
  /\ lpc = "built"
  /\ Len(libraries) = 2
  /\ libraries[1] = libraries[2]
  /\ Len(job_files) = 3
  /\ job_files[1] = job_files[2]

\* The job was built from an unclassified library and a native one of the same name.
C34_WitnessNative ==
  /\ lpc = "built"
  /\ Len(libraries) = 2
  /\ libraries[1].name = libraries[2].name
  /\ libraries[1].natives = "empty"
  /\ libraries[2].natives = "linux"
  /\ Len(job_files) = 3
  /\ job_files[1] = job_files[2]

\* ------------------------------------------------------ progress aggregation
\* DownloadableMonitor (downloadables/mod.rs) and DownloadJob::update_progress, which
\* the monitors' reporter calls at every set_current and set_total.

\* DownloadableMonitor::new(0, 5242880): the total of a task before any response.
DefaultTotal == 5242880

\* `f64 as u32` of an infinite quotient saturates at u32::MAX = 4294967295; the model
\* holds the largest integer its checker has for it.
U32Max == 2147483647

\* res.content_length(): unknown (-1) or the length the server announces.
ContentLengths == {-1, 0, 1024, 6291456}

RECURSIVE SumOf(_, _)
\* The sum of fn over 1..n.
SumOf(fn, n) == IF n = 0 THEN 0 ELSE fn[n] + SumOf(fn, n - 1)

\* (((current_size as f64) / (total_size as f64)) * 100.0).ceil() as u32
\* (0/0 is NaN and casts to 0, x/0 is infinite and saturates).
ScaledCurrent(current_size, total_size) ==
  IF total_size = 0 THEN (IF current_size = 0 THEN 0 ELSE U32Max)
  ELSE (current_size * 100 + total_size - 1) \div total_size

\* update_progress with the counters cur and tot: the progress of its SetAll.
UpdateProgress(cur, tot) ==
  ScaledCurrent(SumOf(cur, Cardinality(monitors)), SumOf(tot, Cardinality(monitors)))

InitMonitors ==
  /\ \E n \in 1..MaxMonitors : monitors = 1..n
  /\ current = [f \in monitors |-> 0]
  /\ total = [f \in monitors |-> DefaultTotal]
  /\ mon_attempts = [f \in monitors |-> 0]
  /\ mon_pc = [f \in monitors |-> "between"]
  /\ scaled_current = 0
  /\ progress_set = FALSE

\* No monitors: the state of these variables while another component is examined.
IdleMonitors ==
  /\ monitors = {}
  /\ current = <<>>
  /\ total = <<>>
  /\ mon_attempts = <<>>
  /\ mon_pc = <<>>
  /\ scaled_current = 0
  /\ progress_set = FALSE

\* An attempt on f gets its response: monitor.set_total(content_len) when the length
\* is known, and the reporter's update.
MonitorResponse(f, len) ==
  /\ mon_pc[f] = "between"
  /\ mon_attempts[f] < MaxAttempts
  /\ mon_attempts' = [mon_attempts EXCEPT ![f] = @ + 1]
  /\ mon_pc' = [mon_pc EXCEPT ![f] = "body"]
  /\ IF len = -1
       THEN UNCHANGED <<total, scaled_current, progress_set>>
       ELSE /\ total' = [total EXCEPT ![f] = len]
            /\ scaled_current' = UpdateProgress(current, total')
            /\ progress_set' = TRUE
  /\ UNCHANGED nonMonVars
  /\ UNCHANGED <<monitors, current>>

\* An attempt on f returns without a response (the request failed):
\* monitor.set_current(monitor.get_total()) and the reporter's update.
MonitorNoResponse(f) ==
  /\ mon_pc[f] = "between"
  /\ mon_attempts[f] < MaxAttempts
  /\ mon_attempts' = [mon_attempts EXCEPT ![f] = @ + 1]
  /\ current' = [current EXCEPT ![f] = total[f]]
  /\ scaled_current' = UpdateProgress(current', total)
  /\ progress_set' = TRUE
  /\ mon_pc' = [mon_pc EXCEPT ![f] = IF mon_attempts'[f] < MaxAttempts THEN "between" ELSE "failed"]
  /\ UNCHANGED nonMonVars
  /\ UNCHANGED <<monitors, total>>

\* The attempt on f returns after its response: set_current(get_total()), the update,
\* then the end time (success) or the next iteration.
MonitorAttemptReturns(f, ok) ==
  /\ mon_pc[f] = "body"
  /\ current' = [current EXCEPT ![f] = total[f]]
  /\ scaled_current' = UpdateProgress(current', total)
  /\ progress_set' = TRUE
  /\ mon_pc' = [mon_pc EXCEPT ![f] = IF ok THEN "done"
                                      ELSE IF mon_attempts[f] < MaxAttempts THEN "between"
                                      ELSE "failed"]
  /\ UNCHANGED nonMonVars
  /\ UNCHANGED <<monitors, total, mon_attempts>>

\* ---- progress aggregation: claims

\* C35: every progress figure handed to the sink is the sum of the tasks' current
\* counters over the sum of their totals, times 100, and lies within 0..100.
C35_ProgressWithinRange ==
  progress_set =>
    /\ scaled_current \in 0..100
    /\ scaled_current * SumOf(total, Cardinality(monitors))
         >= 100 * SumOf(current, Cardinality(monitors))

\* The figure is in range as long as no task's current counter exceeds its total.
C35_InRangeWhileCurrentWithinTotal ==
  (progress_set /\ \A f \in monitors : current[f] <= total[f]) =>
    scaled_current \in 0..100

\* A retry was answered with a shorter length than the counter the failed attempt left.
C35_WitnessAbove100 ==
  /\ progress_set
  /\ \E f \in monitors : mon_attempts[f] = 2 /\ mon_pc[f] = "body" /\ current[f] > total[f]
  /\ scaled_current > 100

\* ------------------------------------------------------------------- dates
\* Date::deserialize and Date::serialize (json/date.rs).

\* Date and time of day, as RFC3339 writes them before the offset.
DateTimes ==
  {<<"2", "0", "2", "2", "-", "0", "3", "-", "1", "0", "T",
     "0", "9", ":", "5", "1", ":", "3", "8">>,
   <<"2", "0", "1", "0", "-", "0", "6", "-", "3", "0", "T",
     "2", "3", ":", "0", "0", ":", "0", "0">>}

\* The offsets a manifest may carry: Z, or sign, hours and minutes with or without
\* the colon between them.
Offsets ==
  {<<"Z">>} \cup
  {<<sg>> \o hh \o sep \o mm :
     sg \in {"+", "-"}, hh \in {<<"0", "0">>, <<"0", "5">>},
     sep \in {<<>>, <<":">>}, mm \in {<<"0", "0">>, <<"3", "0">>}}

\* The value of a decimal digit.
DigitValue(c) == CHOOSE n \in 0..9 : DecimalDigits[n + 1] = c

\* Is c a decimal digit?
IsDigit(c) == \E n \in 0..9 : DecimalDigits[n + 1] = c

NoDate == [ok |-> FALSE, local |-> <<>>, offset |-> 0]

\* Is z an RFC3339 offset: Z, or sign, two digits, colon, two digits?
ValidOffset(z) ==
  \/ z = <<"Z">>
  \/ /\ Len(z) = 6
     /\ z[1] \in {"+", "-"}
     /\ IsDigit(z[2]) /\ IsDigit(z[3]) /\ z[4] = ":" /\ IsDigit(z[5]) /\ IsDigit(z[6])
     /\ 10 * DigitValue(z[2]) + DigitValue(z[3]) <= 23
     /\ 10 * DigitValue(z[5]) + DigitValue(z[6]) <= 59

\* The minutes east of UTC a valid offset stands for.
ParseOffset(z) ==
  IF z = <<"Z">> THEN 0
  ELSE (IF z[1] = "-" THEN -1 ELSE 1)
         * (60 * (10 * DigitValue(z[2]) + DigitValue(z[3]))
            + 10 * DigitValue(z[5]) + DigitValue(z[6]))

\* DateTime::parse_from_rfc3339: the local date and time with the offset, or an error.
ParseFromRfc3339(t) ==
  IF /\ Len(t) > 19
     /\ SubSeq(t, 1, 19) \in DateTimes
     /\ ValidOffset(SubSeq(t, 20, Len(t)))
    THEN [ok |-> TRUE, local |-> SubSeq(t, 1, 19), offset |-> ParseOffset(SubSeq(t, 20, Len(t)))]
  ELSE NoDate

\* DateTime<FixedOffset>::to_rfc3339: the offset is written as sign, hours, colon, minutes.
ToRfc3339(d) ==
  LET m == IF d.offset < 0 THEN -d.offset ELSE d.offset
  IN d.local \o <<IF d.offset < 0 THEN "-" ELSE "+">>
       \o FormatInt02(m \div 60) \o <<":">> \o FormatInt02(m % 60)

\* Date::deserialize up to the parse: in a string longer than five characters whose
\* last but one character is no colon, a colon goes before the last two characters.
InsertColon(t) ==
  IF Len(t) > 5
    THEN IF SubSeq(t, Len(t) - 4, Len(t))[4] # ":"
           THEN SubSeq(t, 1, Len(t) - 2) \o <<":">> \o SubSeq(t, Len(t) - 1, Len(t))
           ELSE t
  ELSE t

\* Has the text an offset of sign and four digits, without a colon?
LacksColon(t) ==
  /\ Len(t) = 24
  /\ t[20] \in {"+", "-"}
  /\ \A i \in 21..24 : IsDigit(t[i])

InitDate ==
  /\ date_text \in {dt \o z : dt \in DateTimes, z \in Offsets}
  /\ normalized = <<>>
  /\ parsed = NoDate
  /\ serialized = <<>>
  /\ dpc = "idle"

\* No date: the state of these variables while another component is examined.
IdleDate ==
  /\ date_text = <<>>
  /\ normalized = <<>>
  /\ parsed = NoDate
  /\ serialized = <<>>
  /\ dpc = "off"

\* Date::deserialize, first half: the string is read and its offset rewritten.
NormalizeDate ==
  /\ dpc = "idle"
  /\ normalized' = InsertColon(date_text)
  /\ dpc' = "normalized"
  /\ UNCHANGED nonDateVars
  /\ UNCHANGED <<date_text, parsed, serialized>>

\* Date::deserialize, second half: parse_from_rfc3339 of the rewritten string.
ParseDate ==
  /\ dpc = "normalized"
  /\ parsed' = ParseFromRfc3339(normalized)
  /\ dpc' = "parsed"
  /\ UNCHANGED nonDateVars
  /\ UNCHANGED <<date_text, normalized, serialized>>

\* Date::serialize of a date that was parsed.
SerializeDate ==
  /\ dpc = "parsed"
  /\ parsed.ok
  /\ serialized' = ToRfc3339(parsed)
  /\ dpc' = "serialized"
  /\ UNCHANGED nonDateVars
  /\ UNCHANGED <<date_text, normalized, parsed>>

\* ---- dates: claims

\* The RFC3339 text of a date text: the same text, with the colon its offset lacks.
WithColon(t) ==
  IF LacksColon(t) THEN SubSeq(t, 1, 22) \o <<":">> \o SubSeq(t, 23, 24) ELSE t

\* C37: deserializing inserts one colon into an offset that lacks it and leaves an
\* RFC3339 text (colon or Z) as it is; either form parses to the instant of the
\* RFC3339 text, and a parsed RFC3339 text serializes to itself.
C37_OffsetNormalized ==
  /\ dpc \in {"normalized", "parsed", "serialized"} => normalized = WithColon(date_text)
  /\ dpc \in {"parsed", "serialized"} =>
       (parsed.ok /\ parsed = ParseFromRfc3339(WithColon(date_text)))
  /\ (dpc = "serialized" /\ ~LacksColon(date_text)) => serialized = date_text

\* What deserialize does with an offset that lacks the colon.
C37_ColonInsertedWhenLacking ==
  LacksColon(date_text) =>
    /\ dpc \in {"normalized", "parsed", "serialized"} => normalized = WithColon(date_text)
    /\ dpc \in {"parsed", "serialized"} =>
         (parsed.ok /\ parsed = ParseFromRfc3339(WithColon(date_text)))
    /\ dpc = "serialized" => serialized = ToRfc3339(ParseFromRfc3339(WithColon(date_text)))

\* What deserialize does with an RFC3339 text: a colon is inserted all the same, and
\* the parse fails.
C37_Rfc3339Rejected ==
  (~LacksColon(date_text) /\ dpc \in {"parsed", "serialized"}) =>
    /\ normalized # date_text
    /\ Len(normalized) = Len(date_text) + 1
    /\ ~parsed.ok
    /\ dpc # "serialized"

\* An offset written +00:00 was deserialized.
C37_WitnessRfc3339 ==
  /\ dpc = "parsed"
  /\ SubSeq(date_text, 20, Len(date_text)) = <<"+", "0", "0", ":", "0", "0">>
  /\ ~parsed.ok

\* An offset written +0000 was deserialized and serialized.
C37_WitnessNoColon ==
  /\ dpc = "serialized"
  /\ SubSeq(date_text, 20, Len(date_text)) = <<"+", "0", "0", "0", "0">>
  /\ serialized = WithColon(date_text)

\* ---------------------------------------------- the cache of installed versions
\* VersionManager's local_cache under calls from several threads
\* (version_manager/mod.rs): install_version and get_installed_version take &self and
\* may run at once; refresh takes &mut self and runs alone.

\* The versions of the remote index.
VmVersions == 1..MaxVersions

\* Is v an element of the Vec q?
Contains(q, v) == \E i \in DOMAIN q : q[i] = v

\* VersionManager::installed_versions: try_lock, and an empty Vec when it fails.
InstalledVersions(holder) == IF holder = "free" THEN cache ELSE <<>>

\* VersionManager::load_manifest
VmLoadManifest(v) == IF v \in versions_dir THEN "Ok" ELSE "ManifestNotFound"

\* VersionManager::get_installed_version
VmGetInstalledVersion(v) ==
  IF ~Contains(InstalledVersions(mutex), v) THEN "VersionNotFound" ELSE VmLoadManifest(v)

InitVm ==
  /\ versions_dir \in SUBSET VmVersions
  /\ cache \in {q \in SeqsUpTo(VmVersions, MaxVersions) :
                  /\ {q[i] : i \in DOMAIN q} = versions_dir
                  /\ Len(q) = Cardinality(versions_dir)}
  /\ mutex = "free"
  /\ install_id = 0
  /\ install_pc = "idle"
  /\ refresh_pc = "idle"
  /\ lookup_id = 0
  /\ lookup_result = "None"
  /\ lookup_registered = FALSE
  /\ lookup_contended = FALSE

\* No version manager: the state of these variables while another component is examined.
IdleVm ==
  /\ versions_dir = {}
  /\ cache = <<>>
  /\ mutex = "free"
  /\ install_id = 0
  /\ install_pc = "off"
  /\ refresh_pc = "off"
  /\ lookup_id = 0
  /\ lookup_result = "None"
  /\ lookup_registered = FALSE
  /\ lookup_contended = FALSE

\* install_version up to the lock: the manifest is fetched and written.
InstallWrite(v) ==
  /\ install_pc = "idle"
  /\ refresh_pc = "idle"
  /\ Len(cache) < MaxCache
  /\ install_id' = v
  /\ versions_dir' = versions_dir \cup {v}
  /\ install_pc' = "written"
  /\ UNCHANGED nonVmVars
  /\ UNCHANGED <<cache, mutex, refresh_pc, lookup_id, lookup_result, lookup_registered,
                 lookup_contended>>

\* install_version: self.local_cache.lock() returns the guard.
InstallLock ==
  /\ install_pc = "written"
  /\ mutex = "free"
  /\ mutex' = "install"
  /\ install_pc' = "locked"
  /\ UNCHANGED nonVmVars
  /\ UNCHANGED <<cache, versions_dir, install_id, refresh_pc, lookup_id, lookup_result,
                 lookup_registered, lookup_contended>>

\* install_version: the id is pushed and the guard dropped.
InstallPush ==
  /\ install_pc = "locked"
  /\ cache' = Append(cache, install_id)
  /\ mutex' = "free"
  /\ install_id' = 0
  /\ install_pc' = "idle"
  /\ UNCHANGED nonVmVars
  /\ UNCHANGED <<versions_dir, refresh_pc, lookup_id, lookup_result, lookup_registered,
                 lookup_contended>>

\* get_installed_version(v), called from a thread of its own.
LookupVersion(v) ==
  /\ refresh_pc = "idle"
  /\ lookup_id' = v
  /\ lookup_result' = VmGetInstalledVersion(v)
  /\ lookup_registered' = (v \in versions_dir /\ Contains(cache, v))
  /\ lookup_contended' = (mutex # "free")
  /\ UNCHANGED nonVmVars
  /\ UNCHANGED <<cache, mutex, versions_dir, install_id, install_pc, refresh_pc>>

\* refresh_local_versions: local_cache.lock().unwrap().clear(). The exclusive borrow
\* of refresh lets no other call be in progress.
RefreshClear ==
  /\ refresh_pc = "idle"
  /\ install_pc = "idle"
  /\ cache' = <<>>
  /\ refresh_pc' = "cleared"
  /\ UNCHANGED nonVmVars
  /\ UNCHANGED <<mutex, versions_dir, install_id, install_pc, lookup_id, lookup_result,
                 lookup_registered, lookup_contended>>

\* refresh_local_versions: the directory is read and the cache extended with the
\* versions whose manifest loads, in the order read_dir gives them.
RefreshExtend ==
  /\ refresh_pc = "cleared"
  /\ \E q \in SeqsUpTo(VmVersions, MaxVersions) :
       /\ {q[i] : i \in DOMAIN q} = versions_dir
       /\ Len(q) = Cardinality(versions_dir)
       /\ cache' = cache \o q
  /\ refresh_pc' = "idle"
  /\ UNCHANGED nonVmVars
  /\ UNCHANGED <<mutex, versions_dir, install_id, install_pc, lookup_id, lookup_result,
                 lookup_registered, lookup_contended>>

\* ---- the cache of installed versions: claims

\* C40: get_installed_version of a version that is in the local store and in the
\* cache never answers VersionNotFound, whatever install or refresh is in progress.
C40_RegisteredIsFound ==
  lookup_registered => lookup_result # "VersionNotFound"

\* A registered version is found unless the lock was held when it was looked up.
C40_FoundUnlessContended ==
  (lookup_registered /\ ~lookup_contended) => lookup_result = "Ok"

\* With the lock held every lookup answers VersionNotFound.
C40_ContendedIsNotFound ==
  (lookup_id # 0 /\ lookup_contended) => lookup_result = "VersionNotFound"

\* An installed version was looked up while another install held the lock.
C40_WitnessContended ==
  /\ lookup_id # 0
  /\ lookup_registered
  /\ mutex = "install"
  /\ install_id # lookup_id
  /\ lookup_result = "VersionNotFound"

\* ---------------------------------------------------------- specifications

\* The download job (both implementations).
Init == InitJob /\ IdleResolve /\ IdleRules /\ IdleDownload /\ IdleAssets /\ IdleId /\ IdleSeq /\ IdleTask /\ IdleLibs /\ IdleMonitors /\ IdleDate /\ IdleVm

Next ==
  \/ Start
  \/ PullA
  \/ \E f \in all_files : EndAttemptA(f)
  \/ FinishA
  \/ \E w \in Workers : PopB(w)
  \/ \E w \in Workers : EndAttemptB(w)
  \/ FinishB

Spec == Init /\ [][Next]_vars

\* The job under a runtime that keeps polling every spawned task, with download
\* attempts that return.
Fairness ==
  /\ WF_vars(Start)
  /\ WF_vars(PullA)
  /\ WF_vars(\E f \in all_files : EndAttemptA(f))
  /\ WF_vars(FinishA)
  /\ WF_vars(\E w \in Workers : PopB(w))
  /\ WF_vars(\E w \in Workers : EndAttemptB(w))
  /\ WF_vars(FinishB)

\* Jobs of one file or of the most files, whose files succeed at once, fail once, or
\* fail at every attempt, with a budget of no, one or the most attempts, run by one
\* worker or by the largest pool.
InitLive ==
  /\ Init
  /\ \A f \in all_files : fail_first[f] \in {0, 1, max_download_attempts + 1}
  /\ concurrent_downloads \in {1, MaxPool}
  /\ Cardinality(all_files) \in {1, MaxTasks}
  /\ max_download_attempts \in {0, 1, MaxAttempts}

SpecLive == InitLive /\ [][Next]_vars /\ Fairness


\* Manifest resolution on a VersionManager.
InitRes == InitResolve /\ IdleJob /\ IdleRules /\ IdleDownload /\ IdleAssets /\ IdleId /\ IdleSeq /\ IdleTask /\ IdleLibs /\ IdleMonitors /\ IdleDate /\ IdleVm

NextRes ==
  \/ ResolveAgain
  \/ \E v \in DOMAIN parent_of : CallResolve(v)
  \/ \E body \in Bodies : ResolveEnter(body)
  \/ \E body \in Bodies : ResolveAfterUpToDate(body)
  \/ ResolveAfterParent
  \/ UpToDateEnter
  \/ UpToDateAfterResolve

SpecResolve == InitRes /\ [][NextRes]_vars

\* Resolution along one acyclic inheritance chain.
InitMerge == InitChain /\ IdleJob /\ IdleRules /\ IdleDownload /\ IdleAssets /\ IdleId /\ IdleSeq /\ IdleTask /\ IdleLibs /\ IdleMonitors /\ IdleDate /\ IdleVm

\* The newest version the launcher knows, the one a caller resolves.
ChainTop ==
  CHOOSE v \in DOMAIN parent_of :
    /\ InCache(v) \/ GetRemoteVersion(v)
    /\ \A w \in DOMAIN parent_of : (InCache(w) \/ GetRemoteVersion(w)) => w <= v

NextMerge ==
  \/ ResolveAgain
  \/ CallResolve(ChainTop)
  \/ \E body \in Bodies : ResolveEnter(body)
  \/ \E body \in Bodies : ResolveAfterUpToDate(body)
  \/ ResolveAfterParent
  \/ UpToDateEnter
  \/ UpToDateAfterResolve

SpecMerge == InitMerge /\ [][NextMerge]_vars

\* Rule evaluation of one rule list.
InitEval == InitRules /\ IdleJob /\ IdleResolve /\ IdleDownload /\ IdleAssets /\ IdleId /\ IdleSeq /\ IdleTask /\ IdleLibs /\ IdleMonitors /\ IdleDate /\ IdleVm

NextEval ==
  \/ BeginEvaluation
  \/ EvaluateRule
  \/ EndEvaluation

SpecRules == InitEval /\ [][NextEval]_vars

\* Rule evaluation by a library, an argument object or a manifest.
InitApplies ==
  InitSubjects /\ IdleJob /\ IdleResolve /\ IdleDownload /\ IdleAssets /\ IdleId /\ IdleSeq /\ IdleTask /\ IdleLibs /\ IdleMonitors /\ IdleDate /\ IdleVm

SpecApplies == InitApplies /\ [][NextEval]_vars

\* Repeated calls of download on one Downloadable.
InitDl == InitDownload /\ IdleJob /\ IdleResolve /\ IdleRules /\ IdleAssets /\ IdleId /\ IdleSeq /\ IdleTask /\ IdleLibs /\ IdleMonitors /\ IdleDate /\ IdleVm

NextDl ==
  \/ DownloadCall
  \/ \E resp \in Sha1Responses : Sha1Response(resp)
  \/ \E resp \in UrlResponses : UrlResponse(resp)
  \/ \E resp \in UrlResponses : \E header \in EtagHeaders : EtagResponse(resp, header)
  \/ \E resp \in AssetResponses : AssetResponse(resp)

SpecDownload == InitDl /\ [][NextDl]_vars

\* Construction of the asset tasks from one asset index.
InitTasks == InitAssets /\ IdleJob /\ IdleResolve /\ IdleRules /\ IdleDownload /\ IdleId /\ IdleSeq /\ IdleTask /\ IdleLibs /\ IdleMonitors /\ IdleDate /\ IdleVm

NextTasks ==
  \/ GetUniqueObjects
  \/ PushDownloadable
  \/ ReturnDownloadables

SpecAssets == InitTasks /\ [][NextTasks]_vars

\* Parsing and formatting of one version identifier.
InitVersionId == InitId /\ IdleJob /\ IdleResolve /\ IdleRules /\ IdleDownload /\ IdleAssets /\ IdleSeq /\ IdleTask /\ IdleLibs /\ IdleMonitors /\ IdleDate /\ IdleVm

NextVersionId ==
  \/ ParseVersion
  \/ FormatVersion

SpecVersionId == InitVersionId /\ [][NextVersionId]_vars

\* download_version: the two jobs, one after the other.
InitSequence ==
  InitSeq /\ IdleResolve /\ IdleRules /\ IdleDownload /\ IdleAssets /\ IdleId /\ IdleTask /\ IdleLibs /\ IdleMonitors /\ IdleDate /\ IdleVm

NextSequence ==
  \/ StartVersionJob
  \/ StartResourcesJob
  \/ DownloadVersionReturns
  \/ Start
  \/ PullA
  \/ \E f \in all_files : EndAttemptA(f)
  \/ FinishA
  \/ \E w \in Workers : PopB(w)
  \/ \E w \in Workers : EndAttemptB(w)
  \/ FinishB

SpecSequence == InitSequence /\ [][NextSequence]_vars

\* The task list of the "Version & Libraries" job.
InitLibTasks == InitLibs /\ IdleJob /\ IdleResolve /\ IdleRules /\ IdleDownload /\ IdleAssets /\ IdleId /\ IdleSeq /\ IdleTask /\ IdleMonitors /\ IdleDate /\ IdleVm

NextLibTasks ==
  \/ GetRelevantLibraries
  \/ FlatMapLibrary
  \/ AddJarDownloadable

SpecLibTasks == InitLibTasks /\ [][NextLibTasks]_vars

\* The monitors of one job and the figure its sink is handed.
InitProgress == InitMonitors /\ IdleJob /\ IdleResolve /\ IdleRules /\ IdleDownload /\ IdleAssets /\ IdleId /\ IdleSeq /\ IdleTask /\ IdleLibs /\ IdleDate /\ IdleVm

NextProgress ==
  \/ \E f \in monitors : \E len \in ContentLengths : MonitorResponse(f, len)
  \/ \E f \in monitors : MonitorNoResponse(f)
  \/ \E f \in monitors : \E ok \in BOOLEAN : MonitorAttemptReturns(f, ok)

SpecProgress == InitProgress /\ [][NextProgress]_vars

\* Deserialization and serialization of one date.
InitOneDate == InitDate /\ IdleJob /\ IdleResolve /\ IdleRules /\ IdleDownload /\ IdleAssets /\ IdleId /\ IdleSeq /\ IdleTask /\ IdleLibs /\ IdleMonitors /\ IdleVm

NextDate ==
  \/ NormalizeDate
  \/ ParseDate
  \/ SerializeDate

SpecDate == InitOneDate /\ [][NextDate]_vars

\* The cache of installed versions under concurrent calls.
InitVmCache == InitVm /\ IdleJob /\ IdleResolve /\ IdleRules /\ IdleDownload /\ IdleAssets /\ IdleId /\ IdleSeq /\ IdleTask /\ IdleLibs /\ IdleMonitors /\ IdleDate

NextVmCache ==
  \/ \E v \in VmVersions : InstallWrite(v)
  \/ InstallLock
  \/ InstallPush
  \/ \E v \in VmVersions : LookupVersion(v)
  \/ RefreshClear
  \/ RefreshExtend

SpecVmCache == InitVmCache /\ [][NextVmCache]_vars

\* One task of the stream job, attempt by attempt.
InitOneTask == InitTask /\ IdleJob /\ IdleResolve /\ IdleRules /\ IdleDownload /\ IdleAssets /\ IdleId /\ IdleSeq /\ IdleLibs /\ IdleMonitors /\ IdleDate /\ IdleVm

NextOneTask ==
  \/ CallDownload
  \/ \E resp \in TaskResponses : TaskAttempt(resp)
  \/ TaskGiveUp

SpecTask == InitOneTask /\ [][NextOneTask]_vars

====
